---- MODULE Spec2Model ----
(***************************************************************************)
(* A model of the Logcat viewer's filtering core: the query parser and     *)
(* matcher of src/lib/utils.ts, the regular-expression cache, and the log  *)
(* store of src/stores/logStore.ts.                                        *)
(*                                                                         *)
(* Strings are TLA+ strings; a character is a string of length 1, and      *)
(* positions are 0-based as in JavaScript (SubSeq is 1-based).             *)
(***************************************************************************)
EXTENDS Integers, Sequences, FiniteSets, TLC

(***************************************************************************)
(* JavaScript string primitives used by the source.                        *)
(***************************************************************************)
UpperChars == "ABCDEFGHIJKLMNOPQRSTUVWXYZ"
LowerChars == "abcdefghijklmnopqrstuvwxyz"
DigitChars == "0123456789"

\* s[i], 0-based; "" when out of range
charAt(s, i) == IF i >= 0 /\ i < Len(s) THEN SubSeq(s, i + 1, i + 1) ELSE ""

\* s.slice(from, to) for 0 <= from, to
slice(s, from, to) ==
  LET t == IF to > Len(s) THEN Len(s) ELSE to
  IN IF from >= t THEN "" ELSE SubSeq(s, from + 1, t)

\* the characters of a string, as a set
charsOf(s) == {charAt(s, i) : i \in 0 .. Len(s) - 1}

UpperSet == charsOf(UpperChars)
LowerSet == charsOf(LowerChars)
DigitSet == charsOf(DigitChars)
WordSet == UpperSet \cup LowerSet \cup DigitSet \cup {"_"}

\* position of character c in the string set, or -1
charIndex(set, c) ==
  IF \E i \in 0 .. Len(set) - 1 : charAt(set, i) = c
  THEN CHOOSE i \in 0 .. Len(set) - 1 : charAt(set, i) = c
  ELSE -1

LowerOf == [c \in UpperSet |-> charAt(LowerChars, charIndex(UpperChars, c))]
UpperOf == [c \in LowerSet |-> charAt(UpperChars, charIndex(LowerChars, c))]
DigitOf == [c \in DigitSet |-> charIndex(DigitChars, c)]

lowerChar(c) == IF c \in UpperSet THEN LowerOf[c] ELSE c

upperChar(c) == IF c \in LowerSet THEN UpperOf[c] ELSE c

RECURSIVE toLowerCase(_)
toLowerCase(s) ==
  IF s = "" THEN "" ELSE lowerChar(charAt(s, 0)) \o toLowerCase(slice(s, 1, Len(s)))

RECURSIVE toUpperCase(_)
toUpperCase(s) ==
  IF s = "" THEN "" ELSE upperChar(charAt(s, 0)) \o toUpperCase(slice(s, 1, Len(s)))

\* s.startsWith(p, at)
startsWithAt(s, p, at) == at + Len(p) <= Len(s) /\ slice(s, at, at + Len(p)) = p

\* s.indexOf(p, from): the least position >= from where p occurs, or -1
indexOfFrom(s, p, from) ==
  IF \E i \in from .. Len(s) - Len(p) : startsWithAt(s, p, i)
  THEN CHOOSE i \in from .. Len(s) - Len(p) :
         /\ startsWithAt(s, p, i)
         /\ \A j \in from .. i - 1 : ~startsWithAt(s, p, j)
  ELSE -1

\* s.includes(p)
includes(s, p) == indexOfFrom(s, p, 0) >= 0

\* \w of JavaScript regular expressions
isWordChar(c) == c \in WordSet

\* s.trim(): the model's only white space is the blank
RECURSIVE trimStart(_)
trimStart(s) == IF charAt(s, 0) = " " THEN trimStart(slice(s, 1, Len(s))) ELSE s

RECURSIVE trimEnd(_)
trimEnd(s) ==
  IF charAt(s, Len(s) - 1) = " " THEN trimEnd(slice(s, 0, Len(s) - 1)) ELSE s

trim(s) == trimEnd(trimStart(s))

(***************************************************************************)
(* The query parser (src/lib/utils.ts).  A condition is                    *)
(* [value, mode, exclude], an OrGroup [conditions], and a ParsedQuery      *)
(* [text, tagGroups, packageGroups, messageGroups, minLevel, age, isCrash, *)
(* isStacktrace]; an undefined minLevel is "" and an undefined age NoAge.  *)
(***************************************************************************)
NoAge == [value |-> 0, unit |-> ""]

NoMatch == [key |-> "", value |-> "", mode |-> "", exclude |-> FALSE]

EmptyQuery ==
  [text |-> "", tagGroups |-> <<>>, packageGroups |-> <<>>, messageGroups |-> <<>>,
   minLevel |-> "", age |-> NoAge, isCrash |-> FALSE, isStacktrace |-> FALSE]

\* the length of the longest prefix of s made of \w characters
RECURSIVE wordPrefixLen(_)
wordPrefixLen(s) ==
  IF s # "" /\ isWordChar(charAt(s, 0))
  THEN 1 + wordPrefixLen(slice(s, 1, Len(s)))
  ELSE 0

\* cleanToken.match(/^(\w+)<sep>(.+)$/): \w+ cannot run over sep, so the key
\* is the whole word prefix; the value is the non-empty rest
matchKeySep(cleanToken, sep) ==
  LET k == wordPrefixLen(cleanToken)
  IN /\ k >= 1
     /\ startsWithAt(cleanToken, sep, k)
     /\ Len(cleanToken) > k + Len(sep)

parseKeyValue(token) ==
  LET isExclude  == startsWithAt(token, "-", 0)
      cleanToken == IF isExclude THEN slice(token, 1, Len(token)) ELSE token
      k          == wordPrefixLen(cleanToken)
      hit(sep, mode) ==
        [key     |-> toLowerCase(slice(cleanToken, 0, k)),
         value   |-> slice(cleanToken, k + Len(sep), Len(cleanToken)),
         mode    |-> mode,
         exclude |-> isExclude]
  IN IF matchKeySep(cleanToken, "~:") THEN hit("~:", "regex")
     ELSE IF matchKeySep(cleanToken, "=:") THEN hit("=:", "exact")
     ELSE IF matchKeySep(cleanToken, ":") THEN hit(":", "contains")
     ELSE NoMatch

\* the character loop of tokenize: quotes toggle inQuotes and are dropped, a
\* blank outside quotes ends the token
RECURSIVE tokenizeLoop(_, _, _, _, _)
tokenizeLoop(input, i, current, inQuotes, tokens) ==
  LET pushed == IF trim(current) # "" THEN Append(tokens, trim(current)) ELSE tokens
      char   == charAt(input, i)
  IN IF i >= Len(input) THEN pushed
     ELSE IF char = "\"" \/ char = "'"
       THEN tokenizeLoop(input, i + 1, current, ~inQuotes, tokens)
     ELSE IF char = " " /\ ~inQuotes
       THEN tokenizeLoop(input, i + 1, "", inQuotes, pushed)
     ELSE tokenizeLoop(input, i + 1, current \o char, inQuotes, tokens)

tokenize(input) == tokenizeLoop(input, 0, "", FALSE, <<>>)

\* the character loop that splits the query on | outside quotes; quotes are
\* kept in the part
RECURSIVE splitOrLoop(_, _, _, _, _)
splitOrLoop(query, i, current, inQuotes, orParts) ==
  LET pushed == IF trim(current) # "" THEN Append(orParts, trim(current)) ELSE orParts
      char   == charAt(query, i)
  IN IF i >= Len(query) THEN pushed
     ELSE IF char = "\"" \/ char = "'"
       THEN splitOrLoop(query, i + 1, current \o char, ~inQuotes, orParts)
     ELSE IF char = "|" /\ ~inQuotes
       THEN splitOrLoop(query, i + 1, "", inQuotes, pushed)
     ELSE splitOrLoop(query, i + 1, current \o char, inQuotes, orParts)

splitOr(query) == splitOrLoop(query, 0, "", FALSE, <<>>)

LevelNames ==
  {"VERBOSE", "DEBUG", "INFO", "WARN", "ERROR", "ASSERT", "V", "D", "I", "W", "E", "A"}

RECURSIVE allDigits(_)
allDigits(s) ==
  s = "" \/ (charAt(s, 0) \in DigitSet /\ allDigits(slice(s, 1, Len(s))))

\* parseInt(s, 10) of a string of digits
RECURSIVE parseInt(_)
parseInt(s) ==
  IF s = "" THEN 0
  ELSE parseInt(slice(s, 0, Len(s) - 1)) * 10 + DigitOf[charAt(s, Len(s) - 1)]

\* value.match(/^(\d+)([smhd])$/i)
matchAge(value) ==
  /\ Len(value) >= 2
  /\ allDigits(slice(value, 0, Len(value) - 1))
  /\ toLowerCase(charAt(value, Len(value) - 1)) \in {"s", "m", "h", "d"}

\* mutation of processOtherKeys: a level that is no level name clears the
\* minimum level instead of leaving it alone
processOtherKeys_clearsOnMalformed(parsed, result) ==
  IF parsed.key = "level"
  THEN IF toUpperCase(parsed.value) \in LevelNames
       THEN [result EXCEPT !.minLevel = toUpperCase(parsed.value)]
       ELSE [result EXCEPT !.minLevel = ""]
  ELSE IF parsed.key = "age"
  THEN IF matchAge(parsed.value)
       THEN [result EXCEPT !.age =
               [value |-> parseInt(slice(parsed.value, 0, Len(parsed.value) - 1)),
                unit  |-> toLowerCase(charAt(parsed.value, Len(parsed.value) - 1))]]
       ELSE result
  ELSE IF parsed.key = "is"
  THEN IF toLowerCase(parsed.value) = "crash" THEN [result EXCEPT !.isCrash = TRUE]
       ELSE IF toLowerCase(parsed.value) = "stacktrace"
         THEN [result EXCEPT !.isStacktrace = TRUE]
       ELSE result
  ELSE result

processOtherKeys(parsed, result) ==
  IF parsed.key = "level"
  THEN IF toUpperCase(parsed.value) \in LevelNames
       THEN [result EXCEPT !.minLevel = toUpperCase(parsed.value)]
       ELSE result
  ELSE IF parsed.key = "age"
  THEN IF matchAge(parsed.value)
       THEN [result EXCEPT !.age =
               [value |-> parseInt(slice(parsed.value, 0, Len(parsed.value) - 1)),
                unit  |-> toLowerCase(charAt(parsed.value, Len(parsed.value) - 1))]]
       ELSE result
  ELSE IF parsed.key = "is"
  THEN IF toLowerCase(parsed.value) = "crash" THEN [result EXCEPT !.isCrash = TRUE]
       ELSE IF toLowerCase(parsed.value) = "stacktrace"
         THEN [result EXCEPT !.isStacktrace = TRUE]
       ELSE result
  ELSE result

\* One token of either loop of parseLogcatQuery.  acc is the result so far
\* with the three condition lists tag, package, message; grouping is done by
\* the caller.
routeToken(token, acc, parsed) ==
  LET condition == [value |-> parsed.value, mode |-> parsed.mode,
                    exclude |-> parsed.exclude]
      routed    ==
        IF parsed.key = "tag" THEN [acc EXCEPT !.tag = Append(@, condition)]
        ELSE IF parsed.key = "package" THEN [acc EXCEPT !.package = Append(@, condition)]
        ELSE IF parsed.key = "message" THEN [acc EXCEPT !.message = Append(@, condition)]
        ELSE acc
  IN IF parsed # NoMatch
     THEN [routed EXCEPT !.result = processOtherKeys(parsed, @)]
     ELSE IF ~startsWithAt(token, "-", 0)
       THEN [acc EXCEPT !.result.text = trim(@ \o " " \o token)]
     ELSE acc

parseToken(token, acc) == routeToken(token, acc, parseKeyValue(token))

RECURSIVE parseTokens(_, _)
parseTokens(tokens, acc) ==
  IF tokens = <<>> THEN acc
  ELSE parseTokens(Tail(tokens), parseToken(Head(tokens), acc))

RECURSIVE parseParts(_, _)
parseParts(orParts, acc) ==
  IF orParts = <<>> THEN acc
  ELSE parseParts(Tail(orParts), parseTokens(tokenize(Head(orParts)), acc))

\* one group holding all the conditions, or none when there are none
oneGroup(conditions) ==
  IF Len(conditions) > 0 THEN <<[conditions |-> conditions]>> ELSE <<>>

\* every condition its own group
ownGroups(conditions) ==
  [i \in 1 .. Len(conditions) |-> [conditions |-> <<conditions[i]>>]]

\* the result with its condition lists made into groups: one group per list
\* when the query has several | parts, one group per condition otherwise
groupedResult(acc, orQuery) ==
  IF orQuery
  THEN [acc.result EXCEPT !.tagGroups     = oneGroup(acc.tag),
                          !.packageGroups = oneGroup(acc.package),
                          !.messageGroups = oneGroup(acc.message)]
  ELSE [acc.result EXCEPT !.tagGroups     = ownGroups(acc.tag),
                          !.packageGroups = ownGroups(acc.package),
                          !.messageGroups = ownGroups(acc.message)]

\* mutation of parseLogcatQuery: a blank query is kept as the free text
parseLogcatQuery_blankIsText(query) ==
  LET start   == [result |-> EmptyQuery, tag |-> <<>>, package |-> <<>>, message |-> <<>>]
      orParts == splitOr(query)
  IN IF trim(query) = "" THEN [EmptyQuery EXCEPT !.text = query]
     ELSE IF Len(orParts) > 1
       THEN groupedResult(parseParts(orParts, start), TRUE)
     ELSE groupedResult(parseTokens(tokenize(query), start), FALSE)

parseLogcatQuery(query) ==
  LET start   == [result |-> EmptyQuery, tag |-> <<>>, package |-> <<>>, message |-> <<>>]
      orParts == splitOr(query)
  IN IF trim(query) = "" THEN EmptyQuery
     ELSE IF Len(orParts) > 1
       THEN groupedResult(parseParts(orParts, start), TRUE)
     ELSE groupedResult(parseTokens(tokenize(query), start), FALSE)

(***************************************************************************)
(* Regular expressions.  The patterns of the model are made of literal     *)
(* characters and ".", which RegExp accepts, and of an unclosed "(" or     *)
(* "[", for which new RegExp throws.                                       *)
(***************************************************************************)
regexValid(pattern) == ~includes(pattern, "(") /\ ~includes(pattern, "[")

\* whether the pattern matches s at position i
regexMatchAt(pattern, ignoreCase, s, i) ==
  /\ i + Len(pattern) <= Len(s)
  /\ \A k \in 0 .. Len(pattern) - 1 :
       \/ charAt(pattern, k) = "."
       \/ charAt(pattern, k) = charAt(s, i + k)
       \/ ignoreCase /\ lowerChar(charAt(pattern, k)) = lowerChar(charAt(s, i + k))

\* the position of the first match at or after from, or -1
regexSearch(pattern, ignoreCase, s, from) ==
  IF \E i \in from .. Len(s) - Len(pattern) : regexMatchAt(pattern, ignoreCase, s, i)
  THEN CHOOSE i \in from .. Len(s) - Len(pattern) :
         /\ regexMatchAt(pattern, ignoreCase, s, i)
         /\ \A j \in from .. i - 1 : ~regexMatchAt(pattern, ignoreCase, s, j)
  ELSE -1

\* RegExp.prototype.test: a regex with the g flag starts at its lastIndex,
\* leaves it behind the match, and resets it to 0 when nothing matches; a
\* regex without g starts at 0 and keeps its lastIndex
regexTest(pattern, flags, lastIndex, s) ==
  LET global == includes(flags, "g")
      at     == regexSearch(pattern, includes(flags, "i"), s, IF global THEN lastIndex ELSE 0)
  IN [matched   |-> at >= 0,
      lastIndex |-> IF ~global THEN lastIndex
                    ELSE IF at >= 0 THEN at + Len(pattern) ELSE 0]

(***************************************************************************)
(* The regex cache: a Map in insertion order, an entry being the compiled  *)
(* RegExp (its pattern, flags and lastIndex) under the key pattern:flags.  *)
(***************************************************************************)
MAX_CACHE_SIZE == 100

cacheKey(pattern, flags) == pattern \o ":" \o flags

cacheHas(cache, key) == \E i \in 1 .. Len(cache) : cache[i].key = key

cacheGet(cache, key) == cache[CHOOSE i \in 1 .. Len(cache) : cache[i].key = key]

\* the cache without the entry under key
cacheWithout(cache, key) == SelectSeq(cache, LAMBDA e : e.key # key)

\* mutation of getCachedRegex: a hit moves the entry to the newest end, so
\* the entry evicted is the least recently used
getCachedRegex_lru(cache, pattern, flags) ==
  LET key   == cacheKey(pattern, flags)
      fresh == [key |-> key, pattern |-> pattern, flags |-> flags, lastIndex |-> 0]
      room  == IF Len(cache) >= MAX_CACHE_SIZE THEN Tail(cache) ELSE cache
  IN IF cacheHas(cache, key)
     THEN [cache |-> Append(cacheWithout(cache, key), cacheGet(cache, key)),
           found |-> TRUE, regex |-> cacheGet(cache, key)]
     ELSE IF regexValid(pattern)
       THEN [cache |-> Append(room, fresh), found |-> TRUE, regex |-> fresh]
     ELSE [cache |-> cache, found |-> FALSE, regex |-> fresh]

\* mutation of getCachedRegex: room is made before the pattern is compiled,
\* so a pattern that does not compile costs a full cache its oldest entry
getCachedRegex_evictsBeforeCompiling(cache, pattern, flags) ==
  LET key   == cacheKey(pattern, flags)
      fresh == [key |-> key, pattern |-> pattern, flags |-> flags, lastIndex |-> 0]
      room  == IF Len(cache) >= MAX_CACHE_SIZE THEN Tail(cache) ELSE cache
  IN IF cacheHas(cache, key)
     THEN [cache |-> cache, found |-> TRUE, regex |-> cacheGet(cache, key)]
     ELSE IF regexValid(pattern)
       THEN [cache |-> Append(room, fresh), found |-> TRUE, regex |-> fresh]
     ELSE [cache |-> room, found |-> FALSE, regex |-> fresh]

\* getCachedRegex: the cache afterwards and the RegExp returned (found is
\* FALSE for null)
getCachedRegex(cache, pattern, flags) ==
  LET key   == cacheKey(pattern, flags)
      fresh == [key |-> key, pattern |-> pattern, flags |-> flags, lastIndex |-> 0]
      room  == IF Len(cache) >= MAX_CACHE_SIZE THEN Tail(cache) ELSE cache
  IN IF cacheHas(cache, key)
     THEN [cache |-> cache, found |-> TRUE, regex |-> cacheGet(cache, key)]
     ELSE IF regexValid(pattern)
       THEN [cache |-> Append(room, fresh), found |-> TRUE, regex |-> fresh]
     ELSE [cache |-> cache, found |-> FALSE, regex |-> fresh]

RECURSIVE lookupAll(_, _)
\* the cache after looking up each pattern of keys with the flag i
lookupAll(cache, patterns) ==
  IF patterns = <<>> THEN cache
  ELSE lookupAll(getCachedRegex(cache, Head(patterns), "i").cache, Tail(patterns))

\* the RegExp object is shared: what test() did to lastIndex is seen by the
\* next user of the cache entry
cacheSetLastIndex(cache, key, lastIndex) ==
  [i \in 1 .. Len(cache) |->
     IF cache[i].key = key THEN [cache[i] EXCEPT !.lastIndex = lastIndex] ELSE cache[i]]

\* createSearchRegex
escapeChars == charsOf(".*+?^${}()|[]\\")

RECURSIVE escapeRegex(_)
escapeRegex(s) ==
  IF s = "" THEN ""
  ELSE (IF charAt(s, 0) \in escapeChars THEN "\\" ELSE "")
         \o charAt(s, 0) \o escapeRegex(slice(s, 1, Len(s)))

createSearchRegex(cache, searchText, isRegex, isCaseSensitive) ==
  LET pattern == IF isRegex THEN searchText ELSE escapeRegex(searchText)
      flags   == IF isCaseSensitive THEN "g" ELSE "gi"
      none    == [key |-> "", pattern |-> "", flags |-> "", lastIndex |-> 0]
  IN IF searchText = ""
     THEN [cache |-> cache, found |-> FALSE, regex |-> none]
     ELSE getCachedRegex(cache, pattern, flags)

\* getCachedRegex of filter.worker.ts: the key is `${pattern}:${caseSensitive}`
\* and nothing is ever removed
workerCacheKey(pattern, caseSensitive) ==
  pattern \o ":" \o (IF caseSensitive THEN "true" ELSE "false")

workerGetCachedRegex(cache, pattern, caseSensitive) ==
  LET key   == workerCacheKey(pattern, caseSensitive)
      fresh == [key |-> key, pattern |-> pattern,
                flags |-> IF caseSensitive THEN "g" ELSE "gi", lastIndex |-> 0]
  IN IF cacheHas(cache, key)
     THEN [cache |-> cache, found |-> TRUE, regex |-> cacheGet(cache, key)]
     ELSE IF regexValid(pattern)
       THEN [cache |-> Append(cache, fresh), found |-> TRUE, regex |-> fresh]
     ELSE [cache |-> cache, found |-> FALSE, regex |-> fresh]

(***************************************************************************)
(* The query matcher.  A log entry is [id, level, tag, message, pid,       *)
(* packageName, epoch]; an absent packageName is "" and an absent epoch 0, *)
(* which is how the code reads them.  The walks return, with the verdict,  *)
(* the patterns looked up in the regex cache on the way, in order.         *)
(***************************************************************************)
\* mutation of matchCondition: the values are compared as they are written
matchCondition_caseSensitive(value, condition) ==
  LET matches ==
        IF condition.mode = "exact" THEN value = condition.value
        ELSE IF condition.mode = "regex"
          THEN /\ regexValid(condition.value)
               /\ regexTest(condition.value, "i", 0, value).matched
        ELSE includes(value, condition.value)
  IN IF condition.exclude THEN ~matches ELSE matches

matchCondition(value, condition) ==
  LET v == toLowerCase(value)
      c == toLowerCase(condition.value)
      matches ==
        IF condition.mode = "exact" THEN v = c
        ELSE IF condition.mode = "regex"
          THEN /\ regexValid(condition.value)
               /\ regexTest(condition.value, "i", 0, value).matched
        ELSE includes(v, c)
  IN IF condition.exclude THEN ~matches ELSE matches

conditionLookup(condition) ==
  IF condition.mode = "regex" THEN <<condition.value>> ELSE <<>>

\* the conditions are tried in order up to the first whose result is stopOn
RECURSIVE condsWalk(_, _, _)
condsWalk(value, conditions, stopOn) ==
  IF conditions = <<>> THEN [hit |-> FALSE, keys |-> <<>>]
  ELSE IF matchCondition(value, Head(conditions)) = stopOn
    THEN [hit |-> TRUE, keys |-> conditionLookup(Head(conditions))]
  ELSE LET rest == condsWalk(value, Tail(conditions), stopOn)
       IN [hit |-> rest.hit, keys |-> conditionLookup(Head(conditions)) \o rest.keys]

\* ex: the walk over the exclude conditions up to the first that fails;
\* inc: the walk over the include conditions up to the first that matches
\* mutation of matchOrGroup: a group with include conditions is decided by
\* them alone
orGroupVerdict_includesDecide(group, includeConds, ex, inc) ==
  IF Len(group.conditions) = 0 THEN [ok |-> TRUE, keys |-> <<>>]
  ELSE IF Len(includeConds) > 0 THEN [ok |-> inc.hit, keys |-> inc.keys]
  ELSE [ok |-> ~ex.hit, keys |-> ex.keys]

orGroupVerdict(group, includeConds, ex, inc) ==
  IF Len(group.conditions) = 0 THEN [ok |-> TRUE, keys |-> <<>>]
  ELSE IF ex.hit THEN [ok |-> FALSE, keys |-> ex.keys]
  ELSE IF Len(includeConds) > 0 THEN [ok |-> inc.hit, keys |-> ex.keys \o inc.keys]
  ELSE [ok |-> TRUE, keys |-> ex.keys]

includeCondsOf(group) == SelectSeq(group.conditions, LAMBDA c : ~c.exclude)

excludeCondsOf(group) == SelectSeq(group.conditions, LAMBDA c : c.exclude)

\* mutation of matchOrGroup: every include condition must match
matchOrGroupWalk_everyInclude(value, group) ==
  orGroupVerdict(group, includeCondsOf(group),
                 condsWalk(value, excludeCondsOf(group), FALSE),
                 [hit  |-> ~condsWalk(value, includeCondsOf(group), FALSE).hit,
                  keys |-> <<>>])

matchOrGroupWalk(value, group) ==
  orGroupVerdict(group, includeCondsOf(group),
                 condsWalk(value, excludeCondsOf(group), FALSE),
                 condsWalk(value, includeCondsOf(group), TRUE))

matchOrGroup(value, group) == matchOrGroupWalk(value, group).ok

\* mutation of the test for "mine": an excluded condition counts as well
hasSpecialMine_excludedToo(group) ==
  \E i \in 1 .. Len(group.conditions) :
    toLowerCase(group.conditions[i].value) = "mine"

hasSpecialMine(group) ==
  \E i \in 1 .. Len(group.conditions) :
    toLowerCase(group.conditions[i].value) = "mine" /\ ~group.conditions[i].exclude

\* the groups of one field, in order up to the first that fails; with
\* skipMine a package group holding "mine" is passed over
groupsJoin(g, rest) ==
  IF ~g.ok THEN g ELSE [ok |-> rest.ok, keys |-> g.keys \o rest.keys]

RECURSIVE groupsWalk(_, _, _)
groupsWalk(value, groups, skipMine) ==
  IF groups = <<>> THEN [ok |-> TRUE, keys |-> <<>>]
  ELSE IF skipMine /\ hasSpecialMine(Head(groups))
    THEN groupsWalk(value, Tail(groups), skipMine)
  ELSE groupsJoin(matchOrGroupWalk(value, Head(groups)),
                  groupsWalk(value, Tail(groups), skipMine))

levelOrder ==
  <<"V", "VERBOSE", "D", "DEBUG", "I", "INFO", "W", "WARN", "E", "ERROR", "A", "ASSERT">>

\* levelOrder.indexOf(level), 0-based, -1 when absent
levelIndex(level) ==
  IF \E i \in 1 .. Len(levelOrder) : levelOrder[i] = level
  THEN (CHOOSE i \in 1 .. Len(levelOrder) : levelOrder[i] = level) - 1
  ELSE -1

\* Math.floor(index / 2) * 2
normalizedLevel(level) == (levelIndex(level) \div 2) * 2

\* mutation of the level check: the indexes in levelOrder are compared as
\* they are, a full name ranking above its letter
levelPasses_rawIndex(entry, query) ==
  query.minLevel = "" \/ levelIndex(entry.level) >= levelIndex(query.minLevel)

levelPasses(entry, query) ==
  query.minLevel = "" \/ normalizedLevel(entry.level) >= normalizedLevel(query.minLevel)

unitMillis(unit) ==
  IF unit = "s" THEN 1000
  ELSE IF unit = "m" THEN 60 * 1000
  ELSE IF unit = "h" THEN 60 * 60 * 1000
  ELSE IF unit = "d" THEN 24 * 60 * 60 * 1000
  ELSE 0

\* mutation of the age check: an entry exactly as old as the window fails
agePasses_boundaryFails(entry, query, now) ==
  \/ query.age = NoAge
  \/ entry.epoch = 0
  \/ ~(now - entry.epoch >= query.age.value * unitMillis(query.age.unit))

agePasses(entry, query, now) ==
  \/ query.age = NoAge
  \/ entry.epoch = 0
  \/ ~(now - entry.epoch > query.age.value * unitMillis(query.age.unit))

isCrashLog(entry) ==
  \/ includes(entry.message, "FATAL EXCEPTION")
  \/ includes(entry.message, "AndroidRuntime")
  \/ entry.tag = "AndroidRuntime"
  \/ includes(entry.message, "native crash")
  \/ includes(entry.message, "SIGSEGV")
  \/ includes(entry.message, "SIGABRT")

\* the length of the longest prefix of s made of characters of set
RECURSIVE prefixLen(_, _)
prefixLen(s, set) ==
  IF s # "" /\ charAt(s, 0) \in set
  THEN 1 + prefixLen(slice(s, 1, Len(s)), set)
  ELSE 0

\* message.match(/^\s+at\s+[\w.$]+\([\w.]+:\d+\)/): every class is followed
\* by a character outside it, so each run is the longest one
matchesFrame(message) ==
  LET rest(s, n) == slice(s, n, Len(s))
      n1 == prefixLen(message, {" ", "\t"})
      s1 == rest(message, n1)
      s2 == rest(s1, 2)
      n2 == prefixLen(s2, {" ", "\t"})
      s3 == rest(s2, n2)
      n3 == prefixLen(s3, WordSet \cup {".", "$"})
      s4 == rest(s3, n3 + 1)
      n4 == prefixLen(s4, WordSet \cup {"."})
      s5 == rest(s4, n4 + 1)
      n5 == prefixLen(s5, DigitSet)
  IN /\ n1 >= 1 /\ startsWithAt(s1, "at", 0)
     /\ n2 >= 1
     /\ n3 >= 1 /\ charAt(s3, n3) = "("
     /\ n4 >= 1 /\ charAt(s4, n4) = ":"
     /\ n5 >= 1 /\ charAt(s5, n5) = ")"

isStacktraceLog(entry) ==
  \/ includes(entry.message, "\tat ")
  \/ includes(entry.message, "at java.")
  \/ includes(entry.message, "at android.")
  \/ includes(entry.message, "at kotlin.")
  \/ matchesFrame(entry.message)

textPasses(entry, query, isCaseSensitive) ==
  LET searchTarget == entry.tag \o " " \o entry.message
  IN \/ query.text = ""
     \/ IF isCaseSensitive
        THEN includes(searchTarget, query.text)
        ELSE includes(toLowerCase(searchTarget), toLowerCase(query.text))

\* the checks of matchesQuery in order, each returning false at once: the
\* level, the tag, package and message groups (tg, pk, mg), then the rest
queryVerdict(levelOk, tg, pk, mg, tail) ==
  IF ~levelOk THEN [ok |-> FALSE, keys |-> <<>>]
  ELSE IF ~tg.ok THEN [ok |-> FALSE, keys |-> tg.keys]
  ELSE IF ~pk.ok THEN [ok |-> FALSE, keys |-> tg.keys \o pk.keys]
  ELSE IF ~mg.ok THEN [ok |-> FALSE, keys |-> tg.keys \o pk.keys \o mg.keys]
  ELSE [ok |-> tail, keys |-> tg.keys \o pk.keys \o mg.keys]

matchesQueryWalk(entry, query, isCaseSensitive, now) ==
  queryVerdict(levelPasses(entry, query),
               groupsWalk(entry.tag, query.tagGroups, FALSE),
               groupsWalk(entry.packageName, query.packageGroups, TRUE),
               groupsWalk(entry.message, query.messageGroups, FALSE),
               /\ agePasses(entry, query, now)
               /\ query.isCrash => isCrashLog(entry)
               /\ query.isStacktrace => isStacktraceLog(entry)
               /\ textPasses(entry, query, isCaseSensitive))

matchesQuery(entry, query, isCaseSensitive, now) ==
  matchesQueryWalk(entry, query, isCaseSensitive, now).ok

(***************************************************************************)
(* The log store (src/stores/logStore.ts).                                 *)
(***************************************************************************)
VARIABLES
  logs,           \* LogState.logs
  filteredLogs,   \* LogState.filteredLogs
  filter,         \* LogState.filter: [searchText, isRegex, isCaseSensitive, pid]
  isPaused,       \* LogState.isPaused
  settings,       \* LogState.settings: [maxLogLines]
  stats,          \* LogState.stats: [total, filtered, byLevel]
  selectedDevice, \* LogState.selectedDevice: a device id, "" for null
  regexCache,     \* the Map of getCachedRegex
  deviceLogs,     \* the retained collection of each device
  now,            \* Date.now()
  nextId,         \* the id the transport gives the next streamed entry
  arrived,        \* history: the entries admitted since the collection was last empty
  pristine        \* history: only appends have filled the collection since then

storeVars == <<logs, filteredLogs, filter, isPaused, settings, stats, selectedDevice,
               regexCache>>

\* The filter worker and the hook that owns it (src/hooks/useFilterWorker.ts,
\* src/workers/filter.worker.ts).
VARIABLES
  worker,           \* workerRef.current: "none" until the effect has run, then
                    \* "running", and "terminated" after the cleanup
  requestIdCounter, \* requestIdCounter.current
  pendingRequests,  \* pendingRequestsRef.current: [requestId, promise] pairs
  promises,         \* the promises filterLogs has returned, in call order
  toWorker,         \* the messages posted to the worker, not yet handled
  toOwner,          \* the messages posted by the worker, not yet handled
  delivered         \* history: the promises in the order they were resolved

workerVars == <<worker, requestIdCounter, pendingRequests, promises, toWorker, toOwner,
                delivered>>

\* The regex cache of the worker, and the lookups the two caches are given.
VARIABLES
  workerRegexCache,  \* the Map of getCachedRegex in filter.worker.ts
  nextPattern,       \* how many different patterns were looked up in regexCache
  workerNextPattern, \* how many different patterns were looked up in workerRegexCache
  lastLookup         \* history: the cache and the outcome of the latest lookup

cacheVars == <<workerRegexCache, nextPattern, workerNextPattern, lastLookup>>

\* The query being typed into the search box and what the parser makes of it.
VARIABLES
  query,        \* the argument of parseLogcatQuery
  parsed,       \* what parseLogcatQuery returned for it
  typedTokens   \* how many tokens the query was built from

parseVars == <<query, parsed, typedTokens>>

\* The calls of matchesQuery: how many were made, the entry the last one was
\* given and what it returned.
VARIABLES
  matchCalls,     \* the number of calls made
  matchedEntry,   \* the entry argument of matchesQuery
  verdict         \* the value it returned

matchVars == <<matchCalls, matchedEntry, verdict>>

\* The calls of filterLogs, in the store or in the worker: how many were
\* made, and the arguments and the result of the last one.
VARIABLES
  passes,       \* the number of calls made
  passSide,     \* "store" or "worker"
  passLogs,     \* the logs argument
  passFilter,   \* the filter argument
  passOut       \* the entries returned

passVars == <<passes, passSide, passLogs, passFilter, passOut>>

\* The log stream (useLogStream and the hooks and components that call its
\* startLogcat and stopLogcat) and the event system of the transport.
VARIABLES
  isConnected,         \* isConnected of the store
  hasAutoSelectedRef,  \* hasAutoSelectedRef.current of useAutoSelectDevice
  unlistenRef,         \* unlistenRef.current of each caller of useLogStream:
                       \* 0 for null, else the listener its function removes
  listeners,           \* the "logcat-entries" listeners registered: [n, deviceId]
  nextListener,        \* how many listeners were registered so far
  calls,               \* the calls of startLogcat and stopLogcat that await
  streaming,           \* the device the backend streams, "" for none
  emitted,             \* history: how many batches the transport emitted
  toListeners,         \* the listener calls of emitted batches, not yet made
  appendCalls          \* history: how many times a batch was appended

streamVars == <<isConnected, hasAutoSelectedRef, unlistenRef, listeners, nextListener,
                calls, streaming, emitted, toListeners, appendCalls>>

\* The filter history of the store.
VARIABLES
  filterHistory,   \* filterHistory of the store: [id, query, timestamp, isFavorite]
  generatedIds,    \* how many ids generateId has returned
  edits            \* history: how often the user toggled, deleted or cleared

historyVars == <<filterHistory, generatedIds, edits>>

\* what lives outside the store
sideVars == <<workerVars, cacheVars, parseVars, matchVars, passVars, streamVars,
              historyVars>>

vars == <<logs, filteredLogs, filter, isPaused, settings, stats, selectedDevice,
          regexCache, deviceLogs, now, nextId, arrived, pristine, sideVars>>

Levels == {"V", "D", "I", "W", "E", "A"}

\* filter.pid is <<>> when undefined and <<pid>> otherwise
DEFAULT_FILTER ==
  [searchText |-> "", isRegex |-> FALSE, isCaseSensitive |-> FALSE, pid |-> <<>>]

ZeroStats == [total |-> 0, filtered |-> 0, byLevel |-> [l \in Levels |-> 0]]

\* The callback of logs.filter in filterLogs for one entry.  matchesQuery is
\* called with two arguments, so its isCaseSensitive is the default, false.
\* rx is the RegExp of the pass and lastIndex its position before the entry.
entryVerdict(log, f, rx, lastIndex, walk, t) ==
  [keep      |-> /\ walk.ok
                 /\ rx.found => t.matched
                 /\ f.pid # <<>> => log.pid = f.pid[1],
   lastIndex |-> IF walk.ok /\ rx.found THEN t.lastIndex ELSE lastIndex,
   keys      |-> walk.keys]

filterEntry(log, parsedQuery, f, rx, lastIndex, clock) ==
  entryVerdict(log, f, rx, lastIndex,
               matchesQueryWalk(log, parsedQuery, FALSE, clock),
               regexTest(rx.regex.pattern, rx.regex.flags, lastIndex,
                         log.tag \o " " \o log.message))

RECURSIVE filterLoop(_, _, _, _, _, _, _)
\* e is the verdict on the first entry; the rest of the pass starts from the
\* lastIndex and the cache it leaves
filterRest(ls, parsedQuery, f, rx, cache, clock, e) ==
  LET rest == filterLoop(Tail(ls), parsedQuery, f, rx, e.lastIndex,
                         lookupAll(cache, e.keys), clock)
  IN [rest EXCEPT !.out = IF e.keep THEN <<Head(ls)>> \o @ ELSE @]

filterLoop(ls, parsedQuery, f, rx, lastIndex, cache, clock) ==
  IF ls = <<>> THEN [out |-> <<>>, lastIndex |-> lastIndex, cache |-> cache]
  ELSE filterRest(ls, parsedQuery, f, rx, cache, clock,
                  filterEntry(Head(ls), parsedQuery, f, rx, lastIndex, clock))

\* the entries kept and the regex cache afterwards: the RegExp object is
\* shared, so the cache entry keeps the lastIndex the pass ended with
filterResult(rx, pass) ==
  [out   |-> pass.out,
   cache |-> IF rx.found /\ cacheHas(pass.cache, rx.regex.key)
             THEN cacheSetLastIndex(pass.cache, rx.regex.key, pass.lastIndex)
             ELSE pass.cache]

filterWithRegex(ls, f, clock, parsedQuery, rx) ==
  filterResult(rx, filterLoop(ls, parsedQuery, f, rx, rx.regex.lastIndex, rx.cache, clock))

\* the regex is made only in regex mode and for a non-empty text
filterWithQuery(ls, f, cache, clock, parsedQuery) ==
  filterWithRegex(ls, f, clock, parsedQuery,
                  createSearchRegex(cache,
                                    IF f.isRegex THEN parsedQuery.text ELSE "",
                                    TRUE, f.isCaseSensitive))

filterLogs(ls, f, cache, clock) ==
  filterWithQuery(ls, f, cache, clock, parseLogcatQuery(f.searchText))

RECURSIVE countLevels(_, _)
\* the forEach of calculateStats: byLevel[log.level]++
countLevels(ls, byLevel) ==
  IF ls = <<>> THEN byLevel
  ELSE countLevels(Tail(ls), [byLevel EXCEPT ![Head(ls).level] = @ + 1])

\* mutation of calculateStats: the filtered counter repeats the total
calculateStats_filteredIsTotal(ls, fl) ==
  [total    |-> Len(ls),
   filtered |-> Len(ls),
   byLevel  |-> countLevels(ls, [l \in Levels |-> 0])]

calculateStats(ls, fl) ==
  [total    |-> Len(ls),
   filtered |-> Len(fl),
   byLevel  |-> countLevels(ls, [l \in Levels |-> 0])]

\* mutation of mergeLogs: the excess is cut from the newest end
mergeLogs_keepOldest(ls, entries, maxLogLines) ==
  LET mergedLogs == ls \o entries
      excess == Len(mergedLogs) - maxLogLines
  IN IF excess > 0
     THEN [removedLogs |-> SubSeq(mergedLogs, maxLogLines + 1, Len(mergedLogs)),
           mergedLogs  |-> SubSeq(mergedLogs, 1, maxLogLines)]
     ELSE [removedLogs |-> <<>>, mergedLogs |-> mergedLogs]

\* addLogs, the merge: the entries dropped from the front and those kept
mergeLogs(ls, entries, maxLogLines) ==
  LET mergedLogs == ls \o entries
      excess     == Len(mergedLogs) - maxLogLines
  IN IF Len(mergedLogs) > maxLogLines
     THEN [removedLogs |-> SubSeq(mergedLogs, 1, excess),
           mergedLogs  |-> SubSeq(mergedLogs, excess + 1, Len(mergedLogs))]
     ELSE [removedLogs |-> <<>>, mergedLogs |-> mergedLogs]

\* addLogs, the filtered view: the old view without the removed ids, then
\* the entries of the batch that pass the filter
mergeFiltered(fl, removedLogs, appendedFiltered) ==
  LET removedIds == {removedLogs[i].id : i \in 1 .. Len(removedLogs)}
      preservedFiltered == SelectSeq(fl, LAMBDA entry : entry.id \notin removedIds)
  IN preservedFiltered \o appendedFiltered

\* mutation of uncountLevels: the removed entries stay counted
uncountLevels_keepCounts(removedLogs, byLevel) == byLevel

RECURSIVE uncountLevels(_, _)
\* Math.max(0, byLevel[entry.level] - 1) for each removed entry
uncountLevels(removedLogs, byLevel) ==
  IF removedLogs = <<>> THEN byLevel
  ELSE uncountLevels(Tail(removedLogs),
         [byLevel EXCEPT ![Head(removedLogs).level] = IF @ - 1 > 0 THEN @ - 1 ELSE 0])

\* mutation of mergeStats: the total grows by the batch length
mergeStats_ignoreRemoved(st, entries, removedLogs, newFilteredLogs) ==
  [total    |-> st.total + Len(entries),
   filtered |-> Len(newFilteredLogs),
   byLevel  |-> uncountLevels(removedLogs, countLevels(entries, st.byLevel))]

\* addLogs, the incremental statistics
mergeStats(st, entries, removedLogs, newFilteredLogs) ==
  [total    |-> st.total + Len(entries) - Len(removedLogs),
   filtered |-> Len(newFilteredLogs),
   byLevel  |-> uncountLevels(removedLogs, countLevels(entries, st.byLevel))]

\* mutation of addLogs: the pause flag is not consulted
addLogs_whilePaused(entries) ==
  IF Len(entries) = 0
  THEN UNCHANGED storeVars
  ELSE LET m  == mergeLogs(logs, entries, settings.maxLogLines)
           ap == filterLogs(entries, filter, regexCache, now)
           nf == mergeFiltered(filteredLogs, m.removedLogs, ap.out)
       IN /\ logs' = m.mergedLogs
          /\ filteredLogs' = nf
          /\ stats' = mergeStats(stats, entries, m.removedLogs, nf)
          /\ regexCache' = ap.cache
          /\ UNCHANGED <<filter, isPaused, settings, selectedDevice>>

addLogs(entries) ==
  IF isPaused \/ Len(entries) = 0
  THEN UNCHANGED storeVars
  ELSE LET m  == mergeLogs(logs, entries, settings.maxLogLines)
           ap == filterLogs(entries, filter, regexCache, now)
           nf == mergeFiltered(filteredLogs, m.removedLogs, ap.out)
       IN /\ logs' = m.mergedLogs
          /\ filteredLogs' = nf
          /\ stats' = mergeStats(stats, entries, m.removedLogs, nf)
          /\ regexCache' = ap.cache
          /\ UNCHANGED <<filter, isPaused, settings, selectedDevice>>

\* mutation of clearLogs: the per-level counters are not reset
clearLogs_keepsCounters ==
  /\ logs' = <<>>
  /\ filteredLogs' = <<>>
  /\ stats' = [stats EXCEPT !.total = 0, !.filtered = 0]
  /\ UNCHANGED <<filter, isPaused, settings, selectedDevice, regexCache>>

clearLogs ==
  /\ logs' = <<>>
  /\ filteredLogs' = <<>>
  /\ stats' = ZeroStats
  /\ UNCHANGED <<filter, isPaused, settings, selectedDevice, regexCache>>

importLogs(entries) ==
  LET nf == filterLogs(entries, filter, regexCache, now)
  IN /\ logs' = entries
     /\ filteredLogs' = nf.out
     /\ stats' = calculateStats(entries, nf.out)
     /\ isPaused' = TRUE
     /\ selectedDevice' = ""
     /\ regexCache' = nf.cache
     /\ UNCHANGED <<filter, settings>>

\* { ...filter, ...newFilter }
mergeFilter(f, newFilter) ==
  [k \in DOMAIN f |-> IF k \in DOMAIN newFilter THEN newFilter[k] ELSE f[k]]

setFilter(newFilter) ==
  LET updatedFilter == mergeFilter(filter, newFilter)
      nf == filterLogs(logs, updatedFilter, regexCache, now)
  IN /\ filter' = updatedFilter
     /\ filteredLogs' = nf.out
     /\ stats' = calculateStats(logs, nf.out)
     /\ regexCache' = nf.cache
     /\ UNCHANGED <<logs, isPaused, settings, selectedDevice>>

resetFilter ==
  LET nf == filterLogs(logs, DEFAULT_FILTER, regexCache, now)
  IN /\ filter' = DEFAULT_FILTER
     /\ filteredLogs' = nf.out
     /\ stats' = calculateStats(logs, nf.out)
     /\ regexCache' = nf.cache
     /\ UNCHANGED <<logs, isPaused, settings, selectedDevice>>

togglePause ==
  /\ isPaused' = ~isPaused
  /\ UNCHANGED <<logs, filteredLogs, filter, settings, stats, selectedDevice, regexCache>>

updateSettings(newSettings) ==
  /\ settings' = mergeFilter(settings, newSettings)
  /\ UNCHANGED <<logs, filteredLogs, filter, isPaused, stats, selectedDevice, regexCache>>

(***************************************************************************)
(* The store that keeps one collection per device.  startLogcat calls its  *)
(* addLogsForDevice and switchToDevice; they are written here after the    *)
(* description of appendBatch and switchActiveSource, on top of the        *)
(* helpers of addLogs.                                                     *)
(***************************************************************************)
\* appendBatch: dropped while paused; merged into the collection of the
\* device with eviction from the front; the active view, the filtered view
\* and the stats follow incrementally when the device is the active one
addLogsForDevice(deviceId, entries) ==
  IF isPaused \/ Len(entries) = 0
  THEN UNCHANGED <<storeVars, deviceLogs>>
  ELSE LET m  == mergeLogs(deviceLogs[deviceId], entries, settings.maxLogLines)
           ap == filterLogs(entries, filter, regexCache, now)
           nf == mergeFiltered(filteredLogs, m.removedLogs, ap.out)
       IN /\ deviceLogs' = [deviceLogs EXCEPT ![deviceId] = m.mergedLogs]
          /\ IF selectedDevice = deviceId
             THEN /\ logs' = m.mergedLogs
                  /\ filteredLogs' = nf
                  /\ stats' = mergeStats(stats, entries, m.removedLogs, nf)
                  /\ regexCache' = ap.cache
                  /\ UNCHANGED <<filter, isPaused, settings, selectedDevice>>
             ELSE UNCHANGED storeVars

\* switchActiveSource: the collection of the device becomes the active
\* view; the filtered view and the stats are recomputed in one pass
switchToDevice(deviceId) ==
  LET target == deviceLogs[deviceId]
      nf == filterLogs(target, filter, regexCache, now)
  IN /\ selectedDevice' = deviceId
     /\ logs' = target
     /\ filteredLogs' = nf.out
     /\ stats' = calculateStats(target, nf.out)
     /\ regexCache' = nf.cache
     /\ UNCHANGED <<filter, isPaused, settings, deviceLogs>>

\* addMarker: a LogRecord with the marker flag set, given the next id
markerEntry(id, message) ==
  [id |-> id, level |-> "I", tag |-> "t", message |-> message, pid |-> 0,
   packageName |-> "", epoch |-> 0, isSystemMarker |-> TRUE]

\* addMarker: the marker is routed through the appendBatch path
addDeviceMarker(deviceId, message, kind) ==
  addLogsForDevice(deviceId, <<markerEntry(nextId, message)>>)

(***************************************************************************)
(* The filter worker and the hook that owns it.  A promise is [asked,      *)
(* settled, value]: what filterLogs was called with, whether a resolver    *)
(* has been called, and the value it was called with.                      *)
(***************************************************************************)
\* `filter-${n}`
requestIdOf(n) == "filter-" \o ToString(n)

\* A filtered collection is named by the logs and the filter it was computed
\* from: the exchange between the hook and the worker depends on the request
\* a result belongs to, never on its entries.  No logs give the empty
\* collection under every filter.
NoLogs == [logs |-> <<>>, filter |-> DEFAULT_FILTER]

\* filterLogs of the worker
workerFilterLogs(ls, f) == IF ls = <<>> THEN NoLogs ELSE [logs |-> ls, filter |-> f]

\* Map.has, Map.get, Map.set and Map.delete on pendingRequestsRef.current
pendingHas(pending, requestId) == \E e \in pending : e.requestId = requestId

pendingGet(pending, requestId) == (CHOOSE e \in pending : e.requestId = requestId).promise

pendingSet(pending, requestId, promise) ==
  {e \in pending : e.requestId # requestId}
    \cup {[requestId |-> requestId, promise |-> promise]}

\* mutation of pendingDelete: the resolver stays in the map
pendingDelete_keepsResolver(pending, requestId) == pending

pendingDelete(pending, requestId) == {e \in pending : e.requestId # requestId}

\* the resolver of a promise: only its first call settles the promise
resolve(ps, promise, value) ==
  IF ps[promise].settled THEN ps
  ELSE [ps EXCEPT ![promise] = [@ EXCEPT !.settled = TRUE, !.value = value]]

\* the effect of useFilterWorker creates the worker
mountWorker ==
  /\ worker' = "running"
  /\ UNCHANGED <<requestIdCounter, pendingRequests, promises, toWorker, toOwner, delivered>>

\* the cleanup of the effect: worker.terminate() and pendingRequests.clear();
\* the messages the worker has not handled are lost with it
unmountWorker ==
  /\ worker' = "terminated"
  /\ pendingRequests' = {}
  /\ toWorker' = <<>>
  /\ UNCHANGED <<requestIdCounter, promises, toOwner, delivered>>

\* mutation of useFilterWorker_filterLogs: the counter is read and never
\* advanced, so every request carries the same id
useFilterWorker_filterLogs_reusesId(ls, f) ==
  LET promise   == Len(promises) + 1
      asked     == [logs |-> ls, filter |-> f]
      requestId == requestIdOf(1)
  IN IF worker = "none"
     THEN /\ promises' = Append(promises, [asked |-> asked, settled |-> TRUE, value |-> NoLogs])
          /\ delivered' = Append(delivered, promise)
          /\ UNCHANGED <<worker, requestIdCounter, pendingRequests, toWorker, toOwner>>
     ELSE /\ requestIdCounter' = requestIdCounter + 1
          /\ pendingRequests' = pendingSet(pendingRequests, requestId, promise)
          /\ promises' = Append(promises, [asked |-> asked, settled |-> FALSE, value |-> NoLogs])
          /\ toWorker' = IF worker = "running"
                         THEN Append(toWorker, [type |-> "filter", logs |-> ls, filter |-> f,
                                                requestId |-> requestId])
                         ELSE toWorker
          /\ UNCHANGED <<worker, toOwner, delivered>>

\* filterLogs of the hook.  Without a worker the promise resolves at once
\* with []; otherwise the resolver is kept under a fresh request id and the
\* request is posted (a terminated worker receives nothing).
useFilterWorker_filterLogs(ls, f) ==
  LET promise   == Len(promises) + 1
      asked     == [logs |-> ls, filter |-> f]
      requestId == requestIdOf(requestIdCounter + 1)
  IN IF worker = "none"
     THEN /\ promises' = Append(promises, [asked |-> asked, settled |-> TRUE, value |-> NoLogs])
          /\ delivered' = Append(delivered, promise)
          /\ UNCHANGED <<worker, requestIdCounter, pendingRequests, toWorker, toOwner>>
     ELSE /\ requestIdCounter' = requestIdCounter + 1
          /\ pendingRequests' = pendingSet(pendingRequests, requestId, promise)
          /\ promises' = Append(promises, [asked |-> asked, settled |-> FALSE, value |-> NoLogs])
          /\ toWorker' = IF worker = "running"
                         THEN Append(toWorker, [type |-> "filter", logs |-> ls, filter |-> f,
                                                requestId |-> requestId])
                         ELSE toWorker
          /\ UNCHANGED <<worker, toOwner, delivered>>

\* self.onmessage of the worker, on the oldest message posted to it
self_onmessage ==
  LET data == Head(toWorker)
  IN /\ toWorker # <<>>
     /\ toWorker' = Tail(toWorker)
     /\ toOwner' = IF data.type = "filter"
                   THEN Append(toOwner, [type |-> "filter-result",
                                         filteredLogs |-> workerFilterLogs(data.logs, data.filter),
                                         requestId |-> data.requestId])
                   ELSE toOwner
     /\ UNCHANGED <<worker, requestIdCounter, pendingRequests, promises, delivered>>

\* worker.onmessage of the hook, on the oldest message the worker posted
worker_onmessage ==
  LET data == Head(toOwner)
  IN /\ toOwner # <<>>
     /\ toOwner' = Tail(toOwner)
     /\ IF pendingHas(pendingRequests, data.requestId)
        THEN LET promise == pendingGet(pendingRequests, data.requestId)
             IN /\ promises' = resolve(promises, promise, data.filteredLogs)
                /\ delivered' = IF promises[promise].settled THEN delivered
                                ELSE Append(delivered, promise)
                /\ pendingRequests' = pendingDelete(pendingRequests, data.requestId)
        ELSE UNCHANGED <<pendingRequests, promises, delivered>>
     /\ UNCHANGED <<worker, requestIdCounter, toWorker>>

(***************************************************************************)
(* The environment: the transport streams batches of entries with strictly *)
(* increasing ids, the import dialog supplies entries numbered from 0, the *)
(* user edits the filter, pauses, clears and changes maxLogLines.          *)
(***************************************************************************)
MaxBatch == 2       \* entries in one streamed batch
MaxImport == 2      \* entries in one imported file
MaxId == 3          \* the last id the transport assigns
SmallCapacity == 1  \* the values maxLogLines takes
LargeCapacity == 2
MaxRequests == 3
MaxPatterns == 102
MaxLead == 1
MaxQueryTokens == 2
Devices == {"d1", "d2"}
MarkerMessages == {"b"}

\* who calls useLogStream(): each call of the hook has an unlistenRef of its
\* own (App calls useAutoSelectDevice and useDeviceMonitor, the Toolbar
\* starts and stops the stream by hand)
Callers == {"useAutoSelectDevice", "useDeviceMonitor", "Toolbar"}

\* the entry of no call yet
NoEntry ==
  [id |-> 0, level |-> "V", tag |-> "", message |-> "", pid |-> 0,
   packageName |-> "", epoch |-> 0]

\* no lookup yet
NoLookup == [cache |-> "", outcome |-> "", afterHit |-> FALSE]

EntryShapes ==
  { [level |-> "D", tag |-> "t", message |-> "a", pid |-> 1],
    [level |-> "E", tag |-> "t", message |-> "b", pid |-> 2] }

\* what the user sets the filter to: a case-sensitive text search and a
\* case-insensitive regex search (setFilter merges them into the filter)
FilterChanges ==
  { [searchText |-> "A", isRegex |-> FALSE, isCaseSensitive |-> TRUE],
    [searchText |-> "A", isRegex |-> TRUE, isCaseSensitive |-> FALSE] }

SeqsUpTo(S, n) == UNION {[1 .. k -> S] : k \in 0 .. n}

\* the entries of the given shapes, numbered from firstId
mkEntries(shapes, firstId) ==
  [i \in 1 .. Len(shapes) |->
     [id |-> firstId + i - 1, level |-> shapes[i].level, tag |-> shapes[i].tag,
      message |-> shapes[i].message, pid |-> shapes[i].pid,
      packageName |-> "", epoch |-> 0]]

Init ==
  /\ logs = <<>>
  /\ filteredLogs = <<>>
  /\ filter = DEFAULT_FILTER
  /\ isPaused = FALSE
  /\ settings = [maxLogLines |-> LargeCapacity]
  /\ stats = ZeroStats
  /\ selectedDevice = ""
  /\ regexCache = <<>>
  /\ deviceLogs = [d \in Devices |-> <<>>]
  /\ now = 0
  /\ nextId = 1
  /\ arrived = <<>>
  /\ pristine = TRUE
  /\ worker = "none"
  /\ requestIdCounter = 0
  /\ pendingRequests = {}
  /\ promises = <<>>
  /\ toWorker = <<>>
  /\ toOwner = <<>>
  /\ delivered = <<>>
  /\ workerRegexCache = <<>>
  /\ nextPattern = 0
  /\ workerNextPattern = 0
  /\ lastLookup = NoLookup
  /\ query = ""
  /\ parsed = EmptyQuery
  /\ typedTokens = 0
  /\ passes = 0
  /\ passSide = ""
  /\ passLogs = <<>>
  /\ passFilter = DEFAULT_FILTER
  /\ passOut = <<>>
  /\ matchCalls = 0
  /\ matchedEntry = NoEntry
  /\ verdict = TRUE
  /\ isConnected = FALSE
  /\ hasAutoSelectedRef = FALSE
  /\ unlistenRef = [c \in Callers |-> 0]
  /\ listeners = {}
  /\ nextListener = 0
  /\ calls = <<>>
  /\ streaming = ""
  /\ emitted = 0
  /\ toListeners = <<>>
  /\ appendCalls = 0
  /\ filterHistory = <<>>
  /\ generatedIds = 0
  /\ edits = 0

AddLogs ==
  \E shapes \in SeqsUpTo(EntryShapes, MaxBatch) :
    LET entries == mkEntries(shapes, nextId)
    IN /\ nextId + Len(shapes) - 1 <= MaxId
       /\ addLogs(entries)
       /\ nextId' = nextId + Len(shapes)
       /\ arrived' = IF pristine /\ ~isPaused THEN arrived \o entries ELSE arrived
       /\ UNCHANGED <<deviceLogs, sideVars, now, pristine>>

ClearLogs ==
  /\ clearLogs
  /\ arrived' = <<>>
  /\ pristine' = TRUE
  /\ UNCHANGED <<deviceLogs, sideVars, now, nextId>>

\* the import dialog gives up on a file without entries
ImportLogs ==
  \E shapes \in SeqsUpTo(EntryShapes, MaxImport) \ {<<>>} :
    /\ importLogs(mkEntries(shapes, 0))
    /\ arrived' = <<>>
    /\ pristine' = FALSE
    /\ UNCHANGED <<deviceLogs, sideVars, now, nextId>>

SetFilter ==
  \E newFilter \in FilterChanges :
    /\ setFilter(newFilter)
    /\ UNCHANGED <<deviceLogs, sideVars, now, nextId, arrived, pristine>>

ResetFilter ==
  /\ resetFilter
  /\ UNCHANGED <<deviceLogs, sideVars, now, nextId, arrived, pristine>>

TogglePause ==
  /\ togglePause
  /\ UNCHANGED <<deviceLogs, sideVars, now, nextId, arrived, pristine>>

UpdateSettings ==
  \E c \in {SmallCapacity, LargeCapacity} :
    /\ updateSettings([maxLogLines |-> c])
    /\ pristine' = (pristine /\ (logs = <<>> \/ c = settings.maxLogLines))
    /\ arrived' = IF pristine' THEN arrived ELSE <<>>
    /\ UNCHANGED <<deviceLogs, sideVars, now, nextId>>

Next ==
  \/ AddLogs
  \/ ClearLogs
  \/ ImportLogs
  \/ SetFilter
  \/ ResetFilter
  \/ TogglePause
  \/ UpdateSettings

Spec == Init /\ [][Next]_vars

\* what the devices log: entries that the text filter admits (the markers
\* are the entries it rejects)
DeviceShapes == {shape \in EntryShapes : shape.message = "a"}

\* the transport of a device delivers a batch
AddLogsForDevice ==
  \E d \in Devices, shapes \in SeqsUpTo(DeviceShapes, MaxBatch) :
    /\ nextId + Len(shapes) - 1 <= MaxId
    /\ addLogsForDevice(d, mkEntries(shapes, nextId))
    /\ nextId' = nextId + Len(shapes)
    /\ UNCHANGED <<sideVars, now, arrived, pristine>>

\* startLogcat, when the backend has started
SwitchToDevice ==
  \E d \in Devices :
    /\ switchToDevice(d)
    /\ UNCHANGED <<sideVars, now, nextId, arrived, pristine>>

\* useDeviceMonitor: the selected device disconnects or reconnects
AddDeviceMarker ==
  \E message \in MarkerMessages, kind \in {"disconnect", "reconnect"} :
    /\ selectedDevice \in Devices
    /\ nextId <= MaxId
    /\ addDeviceMarker(selectedDevice, message, kind)
    /\ nextId' = nextId + 1
    /\ UNCHANGED <<sideVars, now, arrived, pristine>>

NextSources ==
  \/ AddLogsForDevice
  \/ AddDeviceMarker
  \/ SwitchToDevice
  \/ ClearLogs
  \/ SetFilter
  \/ ResetFilter
  \/ TogglePause

SpecSources == Init /\ [][NextSources]_vars

\* what the hook is asked to filter
WorkerJobs ==
  { [logs |-> mkEntries(<<shape>>, 1), filter |-> f] :
      shape \in EntryShapes,
      f \in {DEFAULT_FILTER, [DEFAULT_FILTER EXCEPT !.searchText = "A"]} }

notWorkerVars == <<storeVars, deviceLogs, now, nextId, arrived, pristine, cacheVars,
                   parseVars, matchVars, passVars,
                    streamVars, historyVars>>

MountWorker ==
  /\ worker = "none"
  /\ mountWorker
  /\ UNCHANGED notWorkerVars

UnmountWorker ==
  /\ worker = "running"
  /\ unmountWorker
  /\ UNCHANGED notWorkerVars

FilterInWorker ==
  \E job \in WorkerJobs :
    /\ Len(promises) < MaxRequests
    /\ useFilterWorker_filterLogs(job.logs, job.filter)
    /\ UNCHANGED notWorkerVars

WorkerReceives ==
  /\ self_onmessage
  /\ UNCHANGED notWorkerVars

OwnerReceives ==
  /\ worker_onmessage
  /\ UNCHANGED notWorkerVars

NextWorker ==
  \/ MountWorker
  \/ FilterInWorker
  \/ WorkerReceives
  \/ OwnerReceives
  \/ UnmountWorker

SpecWorker == Init /\ [][NextWorker]_vars

\* The patterns the caches are asked for: the n-th new pattern is a word of
\* two letters, looked up with the flags its callers use in turn; two
\* patterns that no RegExp can be made of.
patternOf(n) == charAt(LowerChars, n \div 26) \o charAt(LowerChars, n % 26)

flagsOf(n) == <<"i", "g", "gi">>[(n % 3) + 1]

caseSensitiveOf(n) == n % 2 = 0

InvalidPatterns == {"(", "[a"}

\* what a lookup returned: a RegExp already cached, one just compiled, or null
outcomeOf(before, result) ==
  IF ~result.found THEN "null"
  ELSE IF cacheHas(before, result.regex.key) THEN "hit" ELSE "compiled"

notCacheVars == <<logs, filteredLogs, filter, isPaused, settings, stats, selectedDevice,
                  deviceLogs, now, nextId, arrived, pristine, workerVars, parseVars,
                  matchVars, passVars,
                   streamVars, historyVars>>

\* one call of getCachedRegex; afterHit tells that the call before it hit
\* the oldest entry of a full cache
lookup(pattern, flags) ==
  /\ regexCache' = getCachedRegex(regexCache, pattern, flags).cache
  /\ lastLookup' =
       [cache    |-> "main",
        outcome  |-> outcomeOf(regexCache, getCachedRegex(regexCache, pattern, flags)),
        afterHit |-> /\ lastLookup.cache = "main"
                     /\ lastLookup.outcome = "hit"
                     /\ Len(regexCache) >= MAX_CACHE_SIZE]
  /\ UNCHANGED <<workerRegexCache, workerNextPattern, notCacheVars>>

\* one call of getCachedRegex in the worker
workerLookup(pattern, caseSensitive) ==
  /\ workerRegexCache' = workerGetCachedRegex(workerRegexCache, pattern, caseSensitive).cache
  /\ lastLookup' =
       [cache    |-> "worker",
        outcome  |-> outcomeOf(workerRegexCache,
                               workerGetCachedRegex(workerRegexCache, pattern, caseSensitive)),
        afterHit |-> FALSE]
  /\ UNCHANGED <<regexCache, nextPattern, notCacheVars>>

\* a pattern the cache has not been asked for before
LookupNew ==
  /\ nextPattern < MaxPatterns
  /\ nextPattern - workerNextPattern < MaxLead
  /\ lookup(patternOf(nextPattern + 1), flagsOf(nextPattern + 1))
  /\ nextPattern' = nextPattern + 1

\* the pattern of the oldest entry again
LookupAgain ==
  /\ regexCache # <<>>
  /\ lookup(regexCache[1].pattern, regexCache[1].flags)
  /\ UNCHANGED nextPattern

LookupInvalid ==
  \E pattern \in InvalidPatterns :
    /\ lookup(pattern, "i")
    /\ UNCHANGED nextPattern

WorkerLookupNew ==
  /\ workerNextPattern < MaxPatterns
  /\ workerNextPattern - nextPattern < MaxLead
  /\ workerLookup(patternOf(workerNextPattern + 1), caseSensitiveOf(workerNextPattern + 1))
  /\ workerNextPattern' = workerNextPattern + 1

WorkerLookupAgain ==
  /\ workerRegexCache # <<>>
  /\ workerLookup(workerRegexCache[1].pattern, workerRegexCache[1].flags = "g")
  /\ UNCHANGED workerNextPattern

WorkerLookupInvalid ==
  \E pattern \in InvalidPatterns :
    /\ workerLookup(pattern, FALSE)
    /\ UNCHANGED workerNextPattern

NextCache ==
  \/ LookupNew
  \/ LookupAgain
  \/ LookupInvalid
  \/ WorkerLookupNew
  \/ WorkerLookupAgain
  \/ WorkerLookupInvalid

SpecCache == Init /\ [][NextCache]_vars

\* What the user types: words, exclusions, stray quotes, colons and dashes,
\* conditions, well-formed and malformed level, age and is tokens, tokens
\* with a key the parser does not know, and nothing at all; a blank or a |
\* goes before each.
QueryTokens ==
  { "", "a", "-a", "\"b", ":", "-", "tag:x", "-tag:x", "level:e", "level:x",
    "age:5m", "age:5", "is:crash", "is:x", "foo:bar", "http://x" }

Separators == {" ", "|"}

notParseVars == <<storeVars, deviceLogs, now, nextId, arrived, pristine, workerVars,
                  cacheVars, matchVars, passVars,
                   streamVars, historyVars>>

\* the search box grows by a separator and a token, and the query is parsed
TypeQuery ==
  \E sep \in Separators, token \in QueryTokens :
    /\ typedTokens < MaxQueryTokens
    /\ query' = query \o sep \o token
    /\ parsed' = parseLogcatQuery(query \o sep \o token)
    /\ typedTokens' = typedTokens + 1
    /\ UNCHANGED notParseVars

NextParse == TypeQuery

SpecParse == Init /\ [][NextParse]_vars

(***************************************************************************)
(* What the claims speak of.                                               *)
(***************************************************************************)
\* the verdict of filterLogs on one entry alone, with a regex cache that
\* holds nothing yet: whether the entry matches the filter
entryPasses(log, f) == Len(filterLogs(<<log>>, f, <<>>, now).out) = 1

\* the entries of ls that match the filter, in order
matching(ls, f) == SelectSeq(ls, LAMBDA log : entryPasses(log, f))

idsOf(ls) == {ls[i].id : i \in 1 .. Len(ls)}

\* the last n elements of a sequence
lastN(ls, n) == SubSeq(ls, Len(ls) - n + 1, Len(ls))

min(a, b) == IF a < b THEN a ELSE b

\* the ids the transport assigned to entries the store discarded while
\* paused (meaningful while pristine)
discardedIds == (1 .. nextId - 1) \ idsOf(arrived)

\* C1: the filtered view is exactly the entries of the collection that match
\* the current filter, in collection order, in every reachable state
C1_FilteredViewIsExact == filteredLogs = matching(logs, filter)

\* C2: after a full recompute (setFilter, resetFilter, importLogs) the
\* filtered view is logs.filter(r => matchesQuery(r, parse(searchText),
\* isCaseSensitive)), in order
C2_RecomputeHonoursCaseFlag ==
  [][(SetFilter \/ ResetFilter \/ ImportLogs) =>
       filteredLogs' =
         SelectSeq(logs', LAMBDA r :
           matchesQuery(r, parseLogcatQuery(filter'.searchText),
                        filter'.isCaseSensitive, now'))]_vars

\* C3: the collection never holds more than maxLogLines entries
C3_WithinCapacity == Len(logs) <= settings.maxLogLines

\* C4: from an empty collection with capacity c, after n entries appended
\* while not paused the collection is the last min(n, c) of them, in arrival
\* order, and stats.total is min(n, c)
C4_LastMinNC ==
  pristine =>
    LET kept == min(Len(arrived), settings.maxLogLines)
    IN /\ logs = lastN(arrived, kept)
       /\ stats.total = kept

\* capacity 2, ids 1, 2, 3 appended: ids 2 and 3 are retained
C4_Witness ==
  /\ pristine
  /\ settings.maxLogLines = 2
  /\ [i \in 1 .. Len(arrived) |-> arrived[i].id] = <<1, 2, 3>>
  /\ [i \in 1 .. Len(logs) |-> logs[i].id] = <<2, 3>>

\* C5: appending while paused leaves the collection, the filtered view and
\* the stats unchanged, and an entry discarded this way never turns up later
C5_PausedAppendDiscards ==
  /\ [][(isPaused /\ nextId' # nextId) => UNCHANGED storeVars]_vars
  /\ [](pristine => idsOf(logs) \cap discardedIds = {}
                    /\ idsOf(filteredLogs) \cap discardedIds = {})

\* entries were discarded during a pause, and after the resume a later
\* batch was admitted
C5_Witness ==
  /\ pristine
  /\ ~isPaused
  /\ discardedIds # {}
  /\ logs # <<>>
  /\ \A d \in discardedIds : d < logs[Len(logs)].id

\* the entries an append of n entries evicts
evictedBy(n) ==
  IF Len(logs) + n > settings.maxLogLines
  THEN Len(logs) + n - settings.maxLogLines ELSE 0

\* C6: (as stated) an append of N entries while not paused increases
\* stats.total by exactly N
C6_AppendAddsN ==
  [][(~isPaused /\ nextId' # nextId) =>
       stats'.total = stats.total + (nextId' - nextId)]_vars

\* C6: (amended) an append of N entries while not paused increases
\* stats.total by N less the number of entries the append evicts
C6_AppendAddsNLessEvicted ==
  [][(~isPaused /\ nextId' # nextId) =>
       stats'.total = stats.total + (nextId' - nextId)
                        - evictedBy(nextId' - nextId)]_vars

\* resumed after a pause that discarded entries, then appended beyond the
\* capacity
C6_Witness ==
  /\ pristine
  /\ ~isPaused
  /\ discardedIds # {}
  /\ Len(arrived) > settings.maxLogLines
  /\ \A d \in discardedIds : d < arrived[Len(arrived)].id

\* C7: the byLevel counters sum to stats.total
C7_ByLevelSumsToTotal ==
  stats.byLevel["V"] + stats.byLevel["D"] + stats.byLevel["I"]
    + stats.byLevel["W"] + stats.byLevel["E"] + stats.byLevel["A"] = stats.total

\* entries of two levels were appended and some were evicted
C7_Witness ==
  /\ pristine
  /\ Len(arrived) > Len(logs)
  /\ stats.byLevel["D"] > 0
  /\ stats.byLevel["E"] > 0

\* C8: after an append while not paused the filtered view is the previous
\* view without the evicted entries, then the entries of the batch that
\* filterLogs matched and that were admitted (not evicted by the same call)
C8_FilteredAfterAppend ==
  [][\A shapes \in SeqsUpTo(EntryShapes, MaxBatch) :
       LET entries == mkEntries(shapes, nextId)
           merged == logs \o entries
           excess == evictedBy(Len(entries))
           evicted == SubSeq(merged, 1, excess)
           matched == filterLogs(entries, filter, regexCache, now).out
       IN (~isPaused /\ Len(entries) > 0 /\ addLogs(entries)
             /\ nextId' = nextId + Len(entries))
          => filteredLogs' =
               SelectSeq(filteredLogs, LAMBDA e : e.id \notin idsOf(evicted))
                 \o SelectSeq(matched, LAMBDA e : e.id \notin idsOf(evicted))]_vars

\* the statistics of a collection and its filtered view, counted afresh
countedStats(ls, fl) ==
  [total |-> Len(ls), filtered |-> Len(fl),
   byLevel |-> [l \in Levels |-> Cardinality({i \in 1 .. Len(ls) : ls[i].level = l})]]

\* C10: importLogs makes the supplied entries the collection, in order,
\* pauses, leaves the filter alone, and sets the filtered view and the stats
\* to those of the supplied entries under the current filter
C10_ImportReplacesView ==
  [][\A shapes \in SeqsUpTo(EntryShapes, MaxImport) \ {<<>>} :
       LET entries == mkEntries(shapes, 0)
       IN (importLogs(entries) /\ ~pristine' /\ nextId' = nextId)
          => /\ logs' = entries
             /\ isPaused'
             /\ filter' = filter
             /\ filteredLogs' = matching(entries, filter)
             /\ stats' = countedStats(entries, matching(entries, filter))]_vars

\* C9: after switchToDevice(d) the active view is the retained collection of
\* d, the filtered view and the stats are those of that collection under
\* the current filter, and no entry of the device that was active before
\* remains in either view
C9_SwitchLoadsSource ==
  [][\A d \in Devices :
       (switchToDevice(d) /\ nextId' = nextId)
       => /\ logs' = deviceLogs[d]
          /\ filter' = filter
          /\ filteredLogs' = matching(deviceLogs[d], filter)
          /\ stats' = countedStats(deviceLogs[d], matching(deviceLogs[d], filter))
          /\ \A p \in Devices \ {d} :
               /\ idsOf(logs') \cap idsOf(deviceLogs[p]) = {}
               /\ idsOf(filteredLogs') \cap idsOf(deviceLogs[p]) = {}]_vars

\* C11: clearLogs empties the active view and the filtered view, resets
\* stats.total, stats.filtered and every per-level counter to 0, and leaves
\* the filter, the pause flag and the collections of the devices unchanged
C11_ClearEmptiesActiveOnly ==
  [][ClearLogs =>
       /\ logs' = <<>>
       /\ filteredLogs' = <<>>
       /\ stats'.total = 0
       /\ stats'.filtered = 0
       /\ \A l \in Levels : stats'.byLevel[l] = 0
       /\ filter' = filter
       /\ isPaused' = isPaused
       /\ deviceLogs' = deviceLogs]_vars

\* the active view of d1 was cleared under a filter that is not the default,
\* while both devices hold entries
C11_Witness ==
  /\ selectedDevice = "d1"
  /\ logs = <<>>
  /\ \A l \in Levels : stats.byLevel[l] = 0
  /\ deviceLogs["d1"] # <<>>
  /\ deviceLogs["d2"] # <<>>
  /\ filter # DEFAULT_FILTER

\* the ordinary entry with the fields of a marker
withoutFlag(marker) == [k \in DOMAIN marker \ {"isSystemMarker"} |-> marker[k]]

C13_StaleResponseDiscarded ==
  [][(/\ toOwner # <<>>
      /\ worker_onmessage
      /\ Head(toOwner).requestId # requestIdOf(requestIdCounter))
       => UNCHANGED <<promises, delivered>>]_vars

\* the promise resolved last holds the result computed for what the most
\* recent call of filterLogs asked
lastCallInEffect ==
  /\ delivered # <<>>
  /\ delivered[Len(delivered)] = Len(promises)
  /\ promises[Len(promises)].settled
  /\ promises[Len(promises)].value =
       workerFilterLogs(promises[Len(promises)].asked.logs,
                        promises[Len(promises)].asked.filter)

\* C14: last-filter-wins.  With the worker running and every request and
\* response handled, the result in effect is the one computed for the most
\* recently issued request; and whenever a result is delivered, it belongs
\* to a later request than every result delivered before it.
C14_LastFilterWins ==
  /\ []((worker = "running" /\ requestIdCounter > 0 /\ toWorker = <<>> /\ toOwner = <<>>)
          => lastCallInEffect)
  /\ [][delivered' # delivered
          => \A i \in 1 .. Len(delivered) : delivered[i] < delivered'[Len(delivered')]]_vars

\* three requests were issued for different work, all were answered, and
\* the first two results were delivered before the third
C14_Witness ==
  /\ worker = "running"
  /\ requestIdCounter = 3
  /\ toWorker = <<>> /\ toOwner = <<>>
  /\ Len(delivered) = 3
  /\ promises[2].asked # promises[3].asked
  /\ promises[1].asked # promises[3].asked

\* C15: no regex cache ever holds more than 100 compiled patterns, the
\* cache of the worker included.
C15_CachesBounded ==
  /\ Len(regexCache) <= MAX_CACHE_SIZE
  /\ Len(workerRegexCache) <= MAX_CACHE_SIZE

\* the keys of the patterns from the from-th to the to-th new one, in the
\* order they were first looked up
keysInserted(from, to) ==
  [i \in 1 .. to - from + 1 |-> cacheKey(patternOf(from + i - 1), flagsOf(from + i - 1))]

\* C16: eviction is first-in first-out.  Whatever hits came in between, the
\* cache holds the patterns inserted last (at most 100 of them) in the order
\* of their insertion: each insertion into a full cache has removed exactly
\* the entry inserted earliest, and no hit has moved an entry.
C16_FifoEviction ==
  [i \in 1 .. Len(regexCache) |-> regexCache[i].key]
    = keysInserted(nextPattern - min(nextPattern, MAX_CACHE_SIZE) + 1, nextPattern)

\* the oldest entry of the full cache was hit, and the lookup of a new
\* pattern that followed evicted it all the same
C16_Witness ==
  /\ lastLookup = [cache |-> "main", outcome |-> "compiled", afterHit |-> TRUE]
  /\ nextPattern > MAX_CACHE_SIZE
  /\ Len(regexCache) = MAX_CACHE_SIZE

\* C17: a lookup with a pattern that does not compile returns null and
\* leaves the cache as it was, in the main thread and in the worker.
C17_InvalidPatternIsNull ==
  [][(LookupInvalid \/ WorkerLookupInvalid)
       => /\ lastLookup'.outcome = "null"
          /\ UNCHANGED <<regexCache, workerRegexCache>>]_vars

\* the full cache of the main thread was just asked for a pattern that does
\* not compile, and the worker's cache is not empty either
C17_Witness ==
  /\ lastLookup.cache = "main"
  /\ lastLookup.outcome = "null"
  /\ Len(regexCache) = MAX_CACHE_SIZE
  /\ workerRegexCache # <<>>

\* what the interfaces FilterCondition, OrGroup and ParsedQuery allow
isGroups(groups) ==
  \A i \in 1 .. Len(groups) :
    /\ DOMAIN groups[i] = {"conditions"}
    /\ \A j \in 1 .. Len(groups[i].conditions) :
         LET condition == groups[i].conditions[j]
         IN /\ DOMAIN condition = {"value", "mode", "exclude"}
            /\ condition.mode \in {"contains", "exact", "regex"}
            /\ condition.exclude \in BOOLEAN

isParsedQuery(q) ==
  /\ DOMAIN q = DOMAIN EmptyQuery
  /\ isGroups(q.tagGroups) /\ isGroups(q.packageGroups) /\ isGroups(q.messageGroups)
  /\ q.age.value \in Nat
  /\ q.age.unit \in {"", "s", "m", "h", "d"}
  /\ q.isCrash \in BOOLEAN
  /\ q.isStacktrace \in BOOLEAN

allBlank(s) == \A i \in 0 .. Len(s) - 1 : charAt(s, i) = " "

\* C18: parse is total.  Whatever was typed (nothing, separators only, a
\* quote left open, a stray dash, colon or bar), parseLogcatQuery returns a
\* ParsedQuery; for the empty or all-blank query it is the empty predicate,
\* which every record matches.
C18_ParseIsTotal ==
  /\ isParsedQuery(parsed)
  /\ allBlank(query) =>
       /\ parsed = EmptyQuery
       /\ \A shape \in EntryShapes, isCaseSensitive \in BOOLEAN :
            matchesQuery(mkEntries(<<shape>>, 1)[1], parsed, isCaseSensitive, now)

\* two blanks were typed and parsed
C18_Witness ==
  /\ typedTokens = 2
  /\ query = "  "
  /\ parsed = EmptyQuery

\* the tokens of the query as parseLogcatQuery reads them: those of every
\* part when | splits the query into several, those of the query otherwise
tokenLists(q) ==
  IF Len(splitOr(q)) > 1
  THEN [i \in 1 .. Len(splitOr(q)) |-> tokenize(splitOr(q)[i])]
  ELSE <<tokenize(q)>>

tokensOf(q) == UNION {{tokenLists(q)[i][j] : j \in 1 .. Len(tokenLists(q)[i])} :
                        i \in 1 .. Len(tokenLists(q))}

KnownKeys == {"tag", "package", "message", "level", "age", "is"}

\* C19: a token key:value that is not excluded and whose key is none of
\* tag, package, message, level, age, is is part of the free text of the
\* parsed query.
C19_UnknownKeyIsFreeText ==
  \A token \in tokensOf(query) :
    (/\ parseKeyValue(token) # NoMatch
     /\ ~parseKeyValue(token).exclude
     /\ parseKeyValue(token).key \notin KnownKeys)
      => includes(parsed.text, token)

\* level, age and is tokens whose value is malformed
MalformedTokens == {"level:x", "age:5", "is:x"}

RECURSIVE parseLists(_, _)
\* the token loops of parseLogcatQuery over the given token lists
parseLists(lists, acc) ==
  IF lists = <<>> THEN acc
  ELSE parseLists(Tail(lists), parseTokens(Head(lists), acc))

\* the token lists without the malformed tokens
wellFormedLists(q) ==
  [i \in 1 .. Len(tokenLists(q)) |->
     SelectSeq(tokenLists(q)[i], LAMBDA token : token \notin MalformedTokens)]

keysOf(q) == {parseKeyValue(token).key : token \in tokensOf(q) \ MalformedTokens}

\* C20: a level, age or is token with a malformed value changes nothing.
\* The parsed query is what the same tokens without the malformed ones give,
\* and a predicate that no other token sets is unset.
C20_MalformedValueIgnored ==
  /\ parsed = groupedResult(
                parseLists(wellFormedLists(query),
                           [result |-> EmptyQuery, tag |-> <<>>, package |-> <<>>,
                            message |-> <<>>]),
                Len(splitOr(query)) > 1)
  /\ "level" \notin keysOf(query) => parsed.minLevel = ""
  /\ "age" \notin keysOf(query) => parsed.age = NoAge
  /\ "is" \notin keysOf(query) => ~parsed.isCrash /\ ~parsed.isStacktrace

\* a malformed level came after a well-formed one, which still stands
C20_Witness ==
  /\ tokenLists(query) = <<<<"level:e", "level:x">>>>
  /\ parsed.minLevel = "E"

\* the segments of a query: what lies between the | that are outside quotes,
\* blank segments included
RECURSIVE segmentsLoop(_, _, _, _, _)
segmentsLoop(q, i, current, inQuotes, segments) ==
  IF i >= Len(q) THEN Append(segments, current)
  ELSE IF charAt(q, i) \in {"\"", "'"}
    THEN segmentsLoop(q, i + 1, current \o charAt(q, i), ~inQuotes, segments)
  ELSE IF charAt(q, i) = "|" /\ ~inQuotes
    THEN segmentsLoop(q, i + 1, "", inQuotes, Append(segments, current))
  ELSE segmentsLoop(q, i + 1, current \o charAt(q, i), inQuotes, segments)

segmentsOf(q) == segmentsLoop(q, 0, "", FALSE, <<>>)

\* the conditions on one field among the tokens, in token order
fieldConditions(tokens, field) ==
  LET hits == SelectSeq(tokens, LAMBDA token :
                /\ parseKeyValue(token) # NoMatch
                /\ parseKeyValue(token).key = field)
  IN [i \in 1 .. Len(hits) |->
        [value   |-> parseKeyValue(hits[i]).value,
         mode    |-> parseKeyValue(hits[i]).mode,
         exclude |-> parseKeyValue(hits[i]).exclude]]

RECURSIVE segmentConditions(_, _)
\* the conditions on one field of all the segments, in order
segmentConditions(segments, field) ==
  IF segments = <<>> THEN <<>>
  ELSE fieldConditions(tokenize(Head(segments)), field)
         \o segmentConditions(Tail(segments), field)

groupsOfField(q, field) ==
  IF field = "tag" THEN q.tagGroups
  ELSE IF field = "package" THEN q.packageGroups
  ELSE q.messageGroups

\* C21: grouping.  In a query without a | outside quotes every tag, package
\* or message condition is a group of its own, in token order; in a query
\* with | outside quotes all the conditions of one field, from all segments
\* and in order, make exactly one group of that field.
C21_Grouping ==
  \A field \in {"tag", "package", "message"} :
    LET conditions == segmentConditions(segmentsOf(query), field)
        groups     == groupsOfField(parsed, field)
    IN IF Len(segmentsOf(query)) > 1
       THEN groups = IF conditions = <<>> THEN <<>>
                     ELSE <<[conditions |-> conditions]>>
       ELSE groups = [i \in 1 .. Len(conditions) |-> [conditions |-> <<conditions[i]>>]]

(***************************************************************************)
(* Quoted queries.  The query is typed phrase by phrase; every phrase is   *)
(* complete, with its quotes closed, and may hold a blank, a bar or a      *)
(* quote of the other kind between its quotes.                             *)
(***************************************************************************)
QuotedTokens ==
  {"c", "\"a b\"", "'a|b'", "tag:\"x y\"", "-message:'x|y'", "\"it's x\"",
   "'a\"|\"b'", "tag:x"}

TypeQuoted ==
  \E sep \in Separators, token \in QuotedTokens :
    LET typed == IF query = "" THEN token ELSE query \o sep \o token
    IN /\ typedTokens < MaxQueryTokens
       /\ query' = typed
       /\ parsed' = parseLogcatQuery(typed)
       /\ typedTokens' = typedTokens + 1
       /\ UNCHANGED notParseVars

NextQuote == TypeQuoted

SpecQuote == Init /\ [][NextQuote]_vars

\* tokenize as the quoting rule reads: a quote opens a quoted substring, the
\* next quote of the same kind closes it, both are dropped; a quote of the
\* other kind in between is a character like any other
RECURSIVE quotedTokenizeLoop(_, _, _, _, _)
quotedTokenizeLoop(input, i, current, open, tokens) ==
  LET char   == charAt(input, i)
      pushed == IF trim(current) # "" THEN Append(tokens, trim(current)) ELSE tokens
  IN IF i >= Len(input) THEN pushed
     ELSE IF char \in {"\"", "'"} /\ open = ""
       THEN quotedTokenizeLoop(input, i + 1, current, char, tokens)
     ELSE IF char = open
       THEN quotedTokenizeLoop(input, i + 1, current, "", tokens)
     ELSE IF char = " " /\ open = ""
       THEN quotedTokenizeLoop(input, i + 1, "", open, pushed)
     ELSE quotedTokenizeLoop(input, i + 1, current \o char, open, tokens)

\* the OR segments under the same rule; the quotes stay in the segment for
\* the tokenizer
RECURSIVE quotedSplitLoop(_, _, _, _, _)
quotedSplitLoop(q, i, current, open, segments) ==
  LET char   == charAt(q, i)
      pushed == IF trim(current) # "" THEN Append(segments, trim(current)) ELSE segments
  IN IF i >= Len(q) THEN pushed
     ELSE IF char \in {"\"", "'"} /\ open = ""
       THEN quotedSplitLoop(q, i + 1, current \o char, char, segments)
     ELSE IF char = open
       THEN quotedSplitLoop(q, i + 1, current \o char, "", segments)
     ELSE IF char = "|" /\ open = ""
       THEN quotedSplitLoop(q, i + 1, "", open, pushed)
     ELSE quotedSplitLoop(q, i + 1, current \o char, open, segments)

quotedSegments(q) == quotedSplitLoop(q, 0, "", "", <<>>)

quotedTokenLists(q) ==
  [i \in 1 .. Len(quotedSegments(q)) |->
     quotedTokenizeLoop(quotedSegments(q)[i], 0, "", "", <<>>)]

\* C22: quoting.  A blank or a bar between a pair of double quotes or a pair
\* of single quotes splits neither a token nor an OR segment, the two quotes
\* are not part of the token value, and a quote of the other kind between
\* them does not end the quoted substring: the parsed query is the one that
\* the tokens read this way give.
C22_Quoting ==
  parsed = groupedResult(
             parseLists(quotedTokenLists(query),
                        [result |-> EmptyQuery, tag |-> <<>>, package |-> <<>>,
                         message |-> <<>>]),
             Len(quotedSegments(query)) > 1)

(***************************************************************************)
(* The matcher on its own: matchesQuery is called with an entry and the    *)
(* parse of a query.  The inputs are drawn from five families, one for     *)
(* each kind of predicate: single conditions, OR queries, minimum levels,  *)
(* ages and package conditions.                                            *)
(***************************************************************************)
Clock == 200000000

MaxMatches == 1

mkEntry(level, tag, message, packageName, epoch) ==
  [id |-> 1, level |-> level, tag |-> tag, message |-> message, pid |-> 1,
   packageName |-> packageName, epoch |-> epoch]

ConditionFields == {"tag", "message", "package"}

ConditionModes == {"contains", "exact"}

ConditionValues == {"Foo", "foo", "BAZ"}

FieldValues == {"MyFooBar", "Baz", "foo", "FooBar"}

separatorOf(mode) ==
  IF mode = "regex" THEN "~:" ELSE IF mode = "exact" THEN "=:" ELSE ":"

\* the token of a condition as the user writes it
conditionText(field, mode, exclude, value) ==
  (IF exclude THEN "-" ELSE "") \o field \o separatorOf(mode) \o value

\* the entry whose field holds the value, the other fields being fixed
entryWith(field, value) ==
  mkEntry("I",
          IF field = "tag" THEN value ELSE "t",
          IF field = "message" THEN value ELSE "m",
          IF field = "package" THEN value ELSE "",
          0)

ConditionInputs ==
  {[entry |-> entryWith(field, f),
    query |-> conditionText(field, mode, exclude, v)] :
     field \in ConditionFields, mode \in ConditionModes, exclude \in BOOLEAN,
     v \in ConditionValues, f \in FieldValues}

\* the include conditions of an OR query, as [mode, value]
OrConditions ==
  { <<[mode |-> "contains", value |-> "A"], [mode |-> "contains", value |-> "B"]>>,
    <<[mode |-> "contains", value |-> "A"], [mode |-> "exact", value |-> "b"]>>,
    <<[mode |-> "contains", value |-> "B"], [mode |-> "contains", value |-> "A"],
      [mode |-> "contains", value |-> "D"]>> }

OrBars == {" | ", "|"}

\* the conditions on one field written out with bars between them
RECURSIVE orText(_, _, _)
orText(field, conditions, bar) ==
  IF Len(conditions) = 1
  THEN conditionText(field, conditions[1].mode, FALSE, conditions[1].value)
  ELSE conditionText(field, conditions[1].mode, FALSE, conditions[1].value)
         \o bar \o orText(field, Tail(conditions), bar)

OrValues == {"A", "B", "C", "xab", ""}

OrInputs ==
  {[entry |-> entryWith(field, f), query |-> orText(field, conditions, bar)] :
     field \in {"tag", "message"}, conditions \in OrConditions, bar \in OrBars,
     f \in OrValues}

\* a level name as written, in upper case, in lower case and capitalized
spellingsOf(name) ==
  {name, toLowerCase(name), charAt(name, 0) \o toLowerCase(slice(name, 1, Len(name)))}

LevelInputs ==
  {[entry |-> mkEntry(s, "t", "m", "", 0), query |-> "level:" \o written] :
     s \in Levels, written \in UNION {spellingsOf(name) : name \in LevelNames}}

AgeQueries == {"age:5m", "age:300s", "age:2H", "age:1d", "age:0s"}

\* how old the entry is when it is matched, in milliseconds; -1 stands for an
\* entry without epoch
Ages ==
  {-1, 0, 1, 240000, 299999, 300000, 300001, 360000, 7199999, 7200000, 7200001,
   86399999, 86400000, 86400001}

AgeInputs ==
  {[entry |-> mkEntry("I", "t", "m", "", IF a = -1 THEN 0 ELSE Clock - a),
    query |-> q] : a \in Ages, q \in AgeQueries}

cond(mode, exclude, value) == [mode |-> mode, exclude |-> exclude, value |-> value]

\* the package conditions of a query; with bar " | " they are one OR query,
\* with bar " " they are ANDed
PackageConditions ==
  { <<cond("contains", FALSE, "mine")>>,
    <<cond("contains", FALSE, "MINE")>>,
    <<cond("exact", FALSE, "Mine")>>,
    <<cond("regex", FALSE, "mine")>>,
    <<cond("contains", TRUE, "mine")>>,
    <<cond("contains", FALSE, "mine"), cond("contains", TRUE, "com.a")>>,
    <<cond("contains", FALSE, "mine"), cond("contains", FALSE, "com.b")>>,
    <<cond("contains", TRUE, "com.a"), cond("exact", FALSE, "mine")>>,
    <<cond("contains", FALSE, "mines")>>,
    <<cond("contains", FALSE, "com.a"), cond("contains", FALSE, "com.b")>>,
    <<cond("contains", TRUE, "com.a")>> }

PackageBars == {" | ", " "}

RECURSIVE joinConditions(_, _, _)
\* the conditions on one field written out with bar between them
joinConditions(field, conditions, bar) ==
  LET first == conditionText(field, conditions[1].mode, conditions[1].exclude,
                             conditions[1].value)
  IN IF Len(conditions) = 1 THEN first
     ELSE first \o bar \o joinConditions(field, Tail(conditions), bar)

PackageNames == {"", "com.a", "com.b", "mine"}

PackageInputs ==
  {[entry |-> mkEntry("I", "t", "m", pkg, 0),
    query |-> joinConditions("package", conditions, bar)] :
     pkg \in PackageNames, conditions \in PackageConditions, bar \in PackageBars}

\* the tag conditions of an OR query with exclude conditions in it
GroupConditions ==
  { <<cond("contains", TRUE, "A"), cond("contains", TRUE, "B")>>,
    <<cond("contains", TRUE, "A"), cond("contains", FALSE, "B")>>,
    <<cond("contains", FALSE, "A"), cond("exact", TRUE, "xab")>>,
    <<cond("contains", TRUE, "A"), cond("contains", FALSE, "B"), cond("exact", FALSE, "c")>>,
    <<cond("contains", TRUE, "A"), cond("contains", TRUE, "B"), cond("contains", FALSE, "x")>> }

GroupInputs ==
  {[entry |-> entryWith("tag", f), query |-> joinConditions("tag", conditions, " | ")] :
     conditions \in GroupConditions, f \in OrValues}

MatchInputs ==
  ConditionInputs \cup OrInputs \cup LevelInputs \cup AgeInputs \cup PackageInputs
    \cup GroupInputs

notMatchVars == <<storeVars, deviceLogs, nextId, arrived, pristine, workerVars, cacheVars,
                  typedTokens, passVars,
                   streamVars, historyVars>>

\* the query is parsed and the entry matched against it at time Clock
Match ==
  \E input \in MatchInputs :
    /\ matchCalls < MaxMatches
    /\ matchCalls' = matchCalls + 1
    /\ query' = input.query
    /\ parsed' = parseLogcatQuery(input.query)
    /\ now' = Clock
    /\ matchedEntry' = input.entry
    /\ verdict' = matchesQuery(input.entry, parseLogcatQuery(input.query), FALSE, Clock)
    /\ UNCHANGED notMatchVars

NextMatch == Match

SpecMatch == Init /\ [][NextMatch]_vars

fieldOf(entry, field) ==
  IF field = "tag" THEN entry.tag
  ELSE IF field = "message" THEN entry.message
  ELSE entry.packageName

\* C23: a single condition.  For a query that is one contains or exact
\* condition on the tag, the message or the package, the entry matches iff
\* its field value in lower case contains (contains) or equals (exact) the
\* condition value in lower case, and the condition with a leading - gives
\* the opposite; tag:Foo matches the tag MyFooBar and not Baz, -tag:Foo the
\* opposite, tag=:Foo matches foo and not FooBar.
C23_ConditionMatch ==
  /\ \A field \in ConditionFields, mode \in ConditionModes, exclude \in BOOLEAN,
        v \in ConditionValues :
       query = conditionText(field, mode, exclude, v) =>
         LET f   == toLowerCase(fieldOf(matchedEntry, field))
             hit == IF mode = "exact" THEN f = toLowerCase(v)
                    ELSE includes(f, toLowerCase(v))
         IN verdict = (IF exclude THEN ~hit ELSE hit)
  /\ query = "tag:Foo" => (verdict <=> matchedEntry.tag \in {"MyFooBar", "foo", "FooBar"})
  /\ query = "-tag:Foo" => (verdict <=> matchedEntry.tag = "Baz")
  /\ query = "tag=:Foo" => (verdict <=> matchedEntry.tag = "foo")

\* -tag:Foo was matched against an entry with the tag Baz, and the entry
\* passed
C23_Witness ==
  /\ matchCalls = 1
  /\ query = "-tag:Foo"
  /\ matchedEntry.tag = "Baz"
  /\ verdict

\* C24: an OR query.  For a query of non-excluded conditions on one field
\* separated by |, the entry matches iff at least one of the conditions
\* matches its field value; for tag:A | tag:B the entries with a tag holding
\* A or B match and the entry with the tag C does not.
C24_OrQuery ==
  /\ \A field \in {"tag", "message"}, conditions \in OrConditions, bar \in OrBars :
       query = orText(field, conditions, bar) =>
         LET f == toLowerCase(fieldOf(matchedEntry, field))
             hit(condition) ==
               IF condition.mode = "exact" THEN f = toLowerCase(condition.value)
               ELSE includes(f, toLowerCase(condition.value))
         IN verdict <=> \E i \in 1 .. Len(conditions) : hit(conditions[i])
  /\ query = "tag:A | tag:B" => (verdict <=> matchedEntry.tag \in {"A", "B", "xab"})

\* tag:A | tag:B was matched against an entry with the tag B, which only the
\* second condition matches, and the entry passed
C24_Witness ==
  /\ matchCalls = 1
  /\ query = "tag:A | tag:B"
  /\ matchedEntry.tag = "B"
  /\ verdict

\* the severities from the least to the most severe
Ranks == <<"V", "D", "I", "W", "E", "A">>

rank(letter) == CHOOSE i \in 1 .. Len(Ranks) : Ranks[i] = letter

\* C25: the minimum level.  For every level written as a letter or as a full
\* name, in upper case, lower case or capitalized, and every severity s of
\* the entry, level:L matches iff rank(s) >= rank(L) in V < D < I < W < E < A;
\* level:WARN, level:w, level:W and level:warn all accept W, E, A and reject
\* V, D, I.
C25_MinimumLevel ==
  /\ \A name \in LevelNames :
       \A written \in spellingsOf(name) :
         query = "level:" \o written =>
           (verdict <=> rank(matchedEntry.level) >= rank(charAt(name, 0)))
  /\ query \in {"level:WARN", "level:w", "level:W", "level:warn"} =>
       (verdict <=> matchedEntry.level \in {"W", "E", "A"})

\* level:warn was matched against an entry of severity W, and it passed
C25_Witness ==
  /\ matchCalls = 1
  /\ query = "level:warn"
  /\ matchedEntry.level = "W"
  /\ verdict

\* the window of an age query of the model, in milliseconds
windowOf(q) ==
  IF q = "age:5m" THEN 5 * 60000
  ELSE IF q = "age:300s" THEN 300 * 1000
  ELSE IF q = "age:2H" THEN 2 * 3600000
  ELSE IF q = "age:1d" THEN 86400000
  ELSE 0

\* C26: the age.  With age:<N><unit> an entry that carries an epoch matches
\* iff now - epoch <= N times the unit in milliseconds (s = 1000, m = 60000,
\* h = 3600000, d = 86400000), the boundary matching; an entry without epoch
\* always passes.  age:5m accepts an entry 4 minutes old and rejects one 6
\* minutes old.
C26_Age ==
  /\ \A q \in AgeQueries :
       query = q =>
         IF matchedEntry.epoch = 0 THEN verdict
         ELSE verdict <=> now - matchedEntry.epoch <= windowOf(q)
  /\ (query = "age:5m" /\ now - matchedEntry.epoch = 4 * 60000) => verdict
  /\ (query = "age:5m" /\ now - matchedEntry.epoch = 6 * 60000) => ~verdict

\* age:2H was matched against an entry exactly two hours old, which passed
C26_Witness ==
  /\ matchCalls = 1
  /\ query = "age:2H"
  /\ matchedEntry.epoch # 0
  /\ now - matchedEntry.epoch = 7200000
  /\ verdict

\* the groups the conditions make: one group when they are an OR query, a
\* group each otherwise
groupsOfConditions(conditions, bar) ==
  IF bar = " | " /\ Len(conditions) > 1 THEN <<conditions>>
  ELSE [i \in 1 .. Len(conditions) |-> <<conditions[i]>>]

\* a group evaluated like a tag group: every exclude condition passes and,
\* when there are include conditions, one of them matches
passesGroup(value, conditions) ==
  LET f == toLowerCase(value)
      hit(c) == IF c.mode = "exact" THEN f = toLowerCase(c.value)
                ELSE includes(f, toLowerCase(c.value))
      idx == 1 .. Len(conditions)
  IN /\ \A i \in idx : conditions[i].exclude => ~hit(conditions[i])
     /\ (\E i \in idx : ~conditions[i].exclude) =>
          \E i \in idx : ~conditions[i].exclude /\ hit(conditions[i])

\* the verdict on a query of package conditions when the groups for which
\* special holds are satisfied by every entry
packageVerdict(conditions, bar, special(_)) ==
  \A g \in 1 .. Len(groupsOfConditions(conditions, bar)) :
    LET group == groupsOfConditions(conditions, bar)[g]
    IN special(group) \/ passesGroup(matchedEntry.packageName, group)

holdsMine(group) ==
  \E i \in 1 .. Len(group) : group[i].value = "mine" /\ ~group[i].exclude

holdsMineAnyCase(group) ==
  \E i \in 1 .. Len(group) : toLowerCase(group[i].value) = "mine" /\ ~group[i].exclude

\* C27: package groups.  A package group with a non-excluded condition whose
\* value is "mine" is satisfied by every entry, whatever its package name
\* and the other conditions of the group; every other package group is
\* evaluated against the package name of the entry (the empty string when
\* absent) like a tag group.
C27_PackageMine ==
  \A conditions \in PackageConditions, bar \in PackageBars :
    query = joinConditions("package", conditions, bar) =>
      (verdict <=> packageVerdict(conditions, bar, holdsMine))

\* C27 as the code has it: the value of the condition is compared with
\* "mine" in lower case, so MINE and Mine are the special value as well.
C27_PackageMineAnyCase ==
  \A conditions \in PackageConditions, bar \in PackageBars :
    query = joinConditions("package", conditions, bar) =>
      (verdict <=> packageVerdict(conditions, bar, holdsMineAnyCase))

\* a group holding mine and the exclusion of com.a was matched against an
\* entry of the package com.a, and the entry passed
C27_Witness ==
  /\ matchCalls = 1
  /\ query = "package:mine | -package:com.a"
  /\ matchedEntry.packageName = "com.a"
  /\ verdict

(***************************************************************************)
(* The filter of the worker.  filter.worker.ts has its own copy of the     *)
(* parser and of the matcher; the copy differs in parseKeyValue, which     *)
(* splits at the separator, and in matchCondition, which takes its regex   *)
(* from the worker's cache, where every RegExp has the g flag.  The walks  *)
(* return the cache with the verdict: test() moves the lastIndex of the    *)
(* cached RegExp.                                                          *)
(***************************************************************************)
\* value.replace(/^["']|["']$/g, "")
stripQuotes(s) ==
  LET body == IF charAt(s, 0) \in {"\"", "'"} THEN slice(s, 1, Len(s)) ELSE s
  IN IF body # "" /\ charAt(body, Len(body) - 1) \in {"\"", "'"}
     THEN slice(body, 0, Len(body) - 1)
     ELSE body

worker_parseKeyValue(token) ==
  LET exclude    == startsWithAt(token, "-", 0)
      cleanToken == IF exclude THEN slice(token, 1, Len(token)) ELSE token
      hit(separator, mode) ==
        [key     |-> toLowerCase(slice(cleanToken, 0, indexOfFrom(cleanToken, separator, 0))),
         value   |-> stripQuotes(slice(cleanToken,
                                       indexOfFrom(cleanToken, separator, 0) + Len(separator),
                                       Len(cleanToken))),
         mode    |-> mode,
         exclude |-> exclude]
  IN IF includes(cleanToken, "=:") THEN hit("=:", "exact")
     ELSE IF includes(cleanToken, "~:") THEN hit("~:", "regex")
     ELSE IF ~includes(cleanToken, ":") THEN NoMatch
     ELSE hit(":", "contains")

worker_parseToken(token, acc) == routeToken(token, acc, worker_parseKeyValue(token))

RECURSIVE worker_parseTokens(_, _)
worker_parseTokens(tokens, acc) ==
  IF tokens = <<>> THEN acc
  ELSE worker_parseTokens(Tail(tokens), worker_parseToken(Head(tokens), acc))

RECURSIVE worker_parseParts(_, _)
worker_parseParts(orParts, acc) ==
  IF orParts = <<>> THEN acc
  ELSE worker_parseParts(Tail(orParts), worker_parseTokens(tokenize(Head(orParts)), acc))

worker_parseLogcatQuery(q) ==
  LET start   == [result |-> EmptyQuery, tag |-> <<>>, package |-> <<>>, message |-> <<>>]
      orParts == splitOr(q)
  IN IF trim(q) = "" THEN EmptyQuery
     ELSE IF Len(orParts) > 1
       THEN groupedResult(worker_parseParts(orParts, start), TRUE)
     ELSE groupedResult(worker_parseTokens(tokenize(q), start), FALSE)

\* regex.test(s) on the RegExp found in the cache: the result, and the cache
\* with the lastIndex that test() left in the RegExp
worker_test(rx, t) ==
  [matches |-> t.matched, cache |-> cacheSetLastIndex(rx.cache, rx.regex.key, t.lastIndex)]

worker_regexMatches(value, cache, rx) ==
  IF rx.found
  THEN worker_test(rx, regexTest(rx.regex.pattern, rx.regex.flags, rx.regex.lastIndex, value))
  ELSE [matches |-> FALSE, cache |-> cache]

worker_matched(condition, m) ==
  [matches |-> IF condition.exclude THEN ~m.matches ELSE m.matches, cache |-> m.cache]

worker_matchCondition(value, condition, cache) ==
  worker_matched(condition,
    IF condition.mode = "exact"
    THEN [matches |-> toLowerCase(value) = toLowerCase(condition.value), cache |-> cache]
    ELSE IF condition.mode = "regex"
      THEN worker_regexMatches(value, cache,
                               workerGetCachedRegex(cache, condition.value, FALSE))
    ELSE [matches |-> includes(toLowerCase(value), toLowerCase(condition.value)),
          cache   |-> cache])

RECURSIVE worker_condsWalk(_, _, _, _)
\* the conditions are tried in order up to the first whose result is stopOn
worker_condsStep(value, conditions, stopOn, m) ==
  IF m.matches = stopOn THEN [hit |-> TRUE, cache |-> m.cache]
  ELSE worker_condsWalk(value, Tail(conditions), stopOn, m.cache)

worker_condsWalk(value, conditions, stopOn, cache) ==
  IF conditions = <<>> THEN [hit |-> FALSE, cache |-> cache]
  ELSE worker_condsStep(value, conditions, stopOn,
                        worker_matchCondition(value, Head(conditions), cache))

worker_includesVerdict(inc) == [ok |-> inc.hit, cache |-> inc.cache]

worker_afterExcludes(value, group, ex) ==
  IF ex.hit THEN [ok |-> FALSE, cache |-> ex.cache]
  ELSE IF Len(includeCondsOf(group)) > 0
    THEN worker_includesVerdict(
           worker_condsWalk(value, includeCondsOf(group), TRUE, ex.cache))
  ELSE [ok |-> TRUE, cache |-> ex.cache]

worker_matchOrGroup(value, group, cache) ==
  IF Len(group.conditions) = 0 THEN [ok |-> TRUE, cache |-> cache]
  ELSE worker_afterExcludes(value, group,
                            worker_condsWalk(value, excludeCondsOf(group), FALSE, cache))

RECURSIVE worker_groupsWalk(_, _, _, _)
worker_groupsStep(value, groups, skipMine, g) ==
  IF ~g.ok THEN g ELSE worker_groupsWalk(value, Tail(groups), skipMine, g.cache)

\* the groups of one field, in order up to the first that fails
worker_groupsWalk(value, groups, skipMine, cache) ==
  IF groups = <<>> THEN [ok |-> TRUE, cache |-> cache]
  ELSE IF skipMine /\ hasSpecialMine(Head(groups))
    THEN worker_groupsWalk(value, Tail(groups), skipMine, cache)
  ELSE worker_groupsStep(value, groups, skipMine,
                         worker_matchOrGroup(value, Head(groups), cache))

worker_afterMessage(mg, tail) ==
  IF ~mg.ok THEN mg ELSE [ok |-> tail, cache |-> mg.cache]

worker_afterPackage(entry, q, pk, tail) ==
  IF ~pk.ok THEN pk
  ELSE worker_afterMessage(worker_groupsWalk(entry.message, q.messageGroups, FALSE, pk.cache),
                           tail)

worker_afterTag(entry, q, tg, tail) ==
  IF ~tg.ok THEN tg
  ELSE worker_afterPackage(entry, q,
         worker_groupsWalk(entry.packageName, q.packageGroups, TRUE, tg.cache), tail)

\* matchesQuery of the worker: the level, the tag, package and message
\* groups, then age, crash, stacktrace and text, each returning false at once
worker_matchesQuery(entry, q, isCaseSensitive, clock, cache) ==
  IF ~levelPasses(entry, q) THEN [ok |-> FALSE, cache |-> cache]
  ELSE worker_afterTag(entry, q, worker_groupsWalk(entry.tag, q.tagGroups, FALSE, cache),
                       /\ agePasses(entry, q, clock)
                       /\ q.isCrash => isCrashLog(entry)
                       /\ q.isStacktrace => isStacktraceLog(entry)
                       /\ textPasses(entry, q, isCaseSensitive))

\* the callback of logs.filter for one entry whose query matched: the regex
\* of the pass, when there is one, is tested, then the pid is compared
worker_tested(log, f, m) ==
  [keep  |-> m.matches /\ (f.pid # <<>> => log.pid = f.pid[1]),
   cache |-> m.cache]

worker_entryVerdict(log, f, key, q) ==
  IF ~q.ok THEN [keep |-> FALSE, cache |-> q.cache]
  ELSE IF key # ""
    THEN worker_tested(log, f,
           worker_regexMatches(log.tag \o " " \o log.message, q.cache,
                               [found |-> TRUE, cache |-> q.cache,
                                regex |-> cacheGet(q.cache, key)]))
  ELSE worker_tested(log, f, [matches |-> TRUE, cache |-> q.cache])

RECURSIVE worker_filterLoop(_, _, _, _, _, _)
worker_filterRest(ls, parsedQuery, f, key, clock, e) ==
  LET rest == worker_filterLoop(Tail(ls), parsedQuery, f, key, e.cache, clock)
  IN [rest EXCEPT !.out = IF e.keep THEN <<Head(ls)>> \o @ ELSE @]

\* key is the cache key of the regex of the pass, "" when there is none
worker_filterLoop(ls, parsedQuery, f, key, cache, clock) ==
  IF ls = <<>> THEN [out |-> <<>>, cache |-> cache]
  ELSE worker_filterRest(ls, parsedQuery, f, key, clock,
         worker_entryVerdict(Head(ls), f, key,
           worker_matchesQuery(Head(ls), parsedQuery, f.isCaseSensitive, clock, cache)))

worker_filterWithRegex(ls, f, cache, clock, parsedQuery, rx) ==
  worker_filterLoop(ls, parsedQuery, f,
                    IF rx.found THEN rx.regex.key ELSE "", rx.cache, clock)

\* filterLogs of the worker on its cache: the entries kept and the cache
\* afterwards
worker_filterLogs(ls, f, cache, clock) ==
  LET parsedQuery == worker_parseLogcatQuery(f.searchText)
  IN worker_filterWithRegex(ls, f, cache, clock, parsedQuery,
       IF f.isRegex /\ parsedQuery.text # ""
       THEN workerGetCachedRegex(cache, parsedQuery.text, f.isCaseSensitive)
       ELSE [cache |-> cache, found |-> FALSE,
             regex |-> [key |-> "", pattern |-> "", flags |-> "", lastIndex |-> 0]])

(***************************************************************************)
(* The two filters on their own: filterLogs of the store and filterLogs of *)
(* the worker are called with a few entries and a filter, each on its own  *)
(* regex cache, which lives from one call to the next.                     *)
(***************************************************************************)
MaxPasses == 2

\* the entries differ in their message
PassMessages == {"abc", "a.c", "x("}

passEntries(messages) ==
  [i \in 1 .. Len(messages) |->
     [id |-> i, level |-> "I", tag |-> "t", message |-> messages[i], pid |-> 1,
      packageName |-> "", epoch |-> 0]]

PassLogs ==
  {passEntries(messages) :
     messages \in {<<"abc">>, <<"a.c">>, <<"x(">>, <<"abc", "abc">>, <<"a.c", "abc">>}}

searchFilter(searchText, isRegex, isCaseSensitive) ==
  [DEFAULT_FILTER EXCEPT !.searchText = searchText, !.isRegex = isRegex,
                         !.isCaseSensitive = isCaseSensitive]

\* free text taken as a regex (valid: b, B, a.c; invalid: "(" ), queries
\* with a regex condition (valid: message~:b; invalid: tag~:( ), a plain
\* free text with case-sensitivity on, and a key without a value
PassFilters ==
  { searchFilter("B", FALSE, TRUE),
    searchFilter("tag:", FALSE, FALSE),
    searchFilter("b", TRUE, FALSE),
    searchFilter("B", TRUE, TRUE),
    searchFilter("a.c", TRUE, FALSE),
    searchFilter("(", TRUE, FALSE),
    searchFilter("message~:b", FALSE, FALSE),
    searchFilter("tag~:(", FALSE, FALSE),
    searchFilter("-tag~:(", FALSE, FALSE),
    searchFilter("tag~:( | tag:t", FALSE, FALSE),
    searchFilter("tag~:( message:b", FALSE, FALSE) }

notPassVars == <<logs, filteredLogs, filter, isPaused, settings, stats, selectedDevice,
                 deviceLogs, now, nextId, arrived, pristine, workerVars, nextPattern,
                 workerNextPattern, lastLookup, parseVars, matchVars,
                  streamVars, historyVars>>

called(side, ls, f, out) ==
  /\ passes' = passes + 1
  /\ passSide' = side
  /\ passLogs' = ls
  /\ passFilter' = f
  /\ passOut' = out

storeReturns(ls, f, r) ==
  /\ called("store", ls, f, r.out)
  /\ regexCache' = r.cache

workerReturns(ls, f, r) ==
  /\ called("worker", ls, f, r.out)
  /\ workerRegexCache' = r.cache

\* filterLogs of the store
StoreFilter ==
  \E ls \in PassLogs, f \in PassFilters :
    /\ passes < MaxPasses
    /\ storeReturns(ls, f, filterLogs(ls, f, regexCache, now))
    /\ UNCHANGED <<notPassVars, workerRegexCache>>

\* filterLogs of the worker
WorkerFilter ==
  \E ls \in PassLogs, f \in PassFilters :
    /\ passes < MaxPasses
    /\ workerReturns(ls, f, worker_filterLogs(ls, f, workerRegexCache, now))
    /\ UNCHANGED <<notPassVars, regexCache>>

NextFilter == StoreFilter \/ WorkerFilter

SpecFilter == Init /\ [][NextFilter]_vars

\* the string the free-text regex is tested on
searchTargetOf(log) == log.tag \o " " \o log.message

\* C28: an invalid regular expression.  A key~:value condition whose regex
\* does not compile matches no entry, the rest of the query being evaluated
\* as usual, and with isRegex on a free text that does not compile leaves no
\* entry in the filtered view; the call returns in every case, in the store
\* and in the worker.
C28_InvalidRegexNeverMatches ==
  passes > 0 =>
    /\ passFilter.searchText \in {"tag~:(", "tag~:( message:b"} => passOut = <<>>
    /\ passFilter.searchText = "tag~:( | tag:t" => passOut = passLogs
    /\ (passFilter.isRegex /\ ~regexValid(passFilter.searchText)) => passOut = <<>>

\* the free texts of the model that compile
ValidFreeTexts == {"b", "B", "a.c"}

\* C29: a valid free-text regex.  With isRegex on and a query that is only
\* free text and compiles, an entry is in the filtered view iff the regex
\* matches tag + " " + message, ignoring case unless isCaseSensitive; the
\* entry need not contain the text of the pattern.
C29_FreeTextRegex ==
  (/\ passes > 0
   /\ passFilter.isRegex
   /\ passFilter.searchText \in ValidFreeTexts)
    => passOut = SelectSeq(passLogs, LAMBDA log :
                   \E i \in 0 .. Len(searchTargetOf(log)) :
                     regexMatchAt(passFilter.searchText, ~passFilter.isCaseSensitive,
                                  searchTargetOf(log), i))

\* whether the entry passes the filter when it is evaluated first, with
\* regular expressions that were never used
passesAlone(log, f, side) ==
  IF side = "store"
  THEN Len(filterLogs(<<log>>, f, <<>>, now).out) = 1
  ELSE Len(worker_filterLogs(<<log>>, f, <<>>, now).out) = 1

\* C30: matching is pure.  Whether an entry passes a filter does not depend
\* on the entries evaluated before it in the same call or in earlier calls:
\* every call returns the entries that pass when evaluated alone, and no
\* cached regular expression keeps a match position for the next entry.
C30_MatchingIsPure ==
  /\ passes > 0 =>
       passOut = SelectSeq(passLogs, LAMBDA log : passesAlone(log, passFilter, passSide))
  /\ \A i \in 1 .. Len(regexCache) : regexCache[i].lastIndex = 0
  /\ \A i \in 1 .. Len(workerRegexCache) : workerRegexCache[i].lastIndex = 0

\* C31: an OR group.  A group matches a field value iff every exclude
\* condition of the group passes, its pattern not matching the value, and
\* the group has no include condition or one of them matches; the group of
\* -tag:A | -tag:B rejects an entry whose tag holds A or B.
C31_OrGroup ==
  /\ \A conditions \in GroupConditions :
       query = joinConditions("tag", conditions, " | ") =>
         LET f       == toLowerCase(matchedEntry.tag)
             hit(c)  == IF c.mode = "exact" THEN f = toLowerCase(c.value)
                        ELSE includes(f, toLowerCase(c.value))
             idx     == 1 .. Len(conditions)
             exclude == {i \in idx : conditions[i].exclude}
             include == idx \ exclude
         IN verdict <=> /\ \A i \in exclude : ~hit(conditions[i])
                        /\ include = {} \/ \E i \in include : hit(conditions[i])
  /\ query = "-tag:A | -tag:B" => (verdict <=> matchedEntry.tag \in {"C", ""})

\* -tag:A | tag:B was matched against the tag xab, which the include
\* condition matches and the exclude condition rejects; the entry failed
C31_Witness ==
  /\ matchCalls = 1
  /\ query = "-tag:A | tag:B"
  /\ matchedEntry.tag = "xab"
  /\ ~verdict

RECURSIVE isSubsequence(_, _)
\* whether the entries of a occur in b in the same relative order
isSubsequence(a, b) ==
  \/ a = <<>>
  \/ /\ b # <<>>
     /\ IF Head(a) = Head(b) THEN isSubsequence(Tail(a), Tail(b))
        ELSE isSubsequence(a, Tail(b))

\* C32: in every reachable state the filtered view is a subsequence of the
\* collection (every entry shown is retained, in the same relative order)
\* and stats.filtered <= stats.total, also after an append of a batch larger
\* than the capacity.
C32_FilteredWithinCollection ==
  /\ isSubsequence(filteredLogs, logs)
  /\ stats.filtered <= stats.total

\* C33: in every reachable state stats.total is the length of the collection
\* and stats.filtered is the length of the filtered view, across incremental
\* appends, evictions, full recomputes, imports and clears.
C33_StatsCountTheLists ==
  /\ stats.total = Len(logs)
  /\ stats.filtered = Len(filteredLogs)

\* an append has evicted entries and both counters still agree with the
\* lists they count
C33_Witness ==
  /\ Len(arrived) > Len(logs)
  /\ Len(logs) > 0
  /\ Len(filteredLogs) < Len(logs)
  /\ stats.total = Len(logs)
  /\ stats.filtered = Len(filteredLogs)

\* the segments of a query that are not blank
nonBlankSegments(q) == SelectSeq(segmentsOf(q), LAMBDA segment : trim(segment) # "")

\* C34: a | outside quotes is always an OR separator and never part of the
\* parsed free text, also when only one side of it is not blank: a query
\* whose only non-blank segment is s parses like s.  (No typed query of
\* this specification holds a | between quotes and another outside them.)
C34_BarIsSeparator ==
  Len(segmentsOf(query)) > 1 =>
    /\ ~includes(parsed.text, "|")
    /\ Len(nonBlankSegments(query)) = 1 =>
         parsed = parseLogcatQuery(nonBlankSegments(query)[1])

\* what the other filter returns for the same entries and the same filter,
\* on its own regex cache
otherSideReturns ==
  IF passSide = "store"
  THEN worker_filterLogs(passLogs, passFilter, workerRegexCache, now).out
  ELSE filterLogs(passLogs, passFilter, regexCache, now).out

\* C35: the worker and the store compute the same result.  For every list
\* of entries and every filter, filterLogs of the worker returns the same
\* entries in the same order as filterLogs of the store: the tokens are
\* classified alike, empty values, case-sensitivity and regex mode are
\* handled alike.
C35_WorkerAgreesWithStore ==
  passes > 0 => passOut = otherSideReturns

\* the ids of the requests issued so far
issuedIds == {requestIdOf(k) : k \in 1 .. requestIdCounter}

\* C36: requests and responses.  Every filter request gets a request id
\* that no earlier request had; the promise of a request is resolved at most
\* once (no resolver that was called is still pending, and a settled promise
\* keeps its value), only by the worker response that carries the id of that
\* request and with the entries of that response; a response whose id is
\* not pending is ignored and changes nothing.
C36_RequestsAndResponses ==
  /\ [](\A e \in pendingRequests : ~promises[e.promise].settled)
  /\ [][/\ requestIdCounter' # requestIdCounter =>
             \E e \in pendingRequests' :
               /\ e.promise = Len(promises')
               /\ e.requestId \notin issuedIds
               /\ \A other \in pendingRequests' : other.requestId = e.requestId => other = e
        /\ \A p \in 1 .. Len(promises) :
             /\ promises[p].settled => promises'[p] = promises[p]
             /\ (~promises[p].settled /\ promises'[p].settled) =>
                  /\ worker_onmessage
                  /\ [requestId |-> Head(toOwner).requestId, promise |-> p] \in pendingRequests
                  /\ promises'[p].value = Head(toOwner).filteredLogs
        /\ (/\ toOwner # <<>>
            /\ worker_onmessage
            /\ ~pendingHas(pendingRequests, Head(toOwner).requestId))
             => UNCHANGED <<worker, requestIdCounter, pendingRequests, promises, toWorker,
                            delivered>>]_vars

\* the first request was resolved by its response with the entries asked
\* for, a later request is pending, and the response to come carries an id
\* that is pending no more, the resolvers having been cleared meanwhile
C36_Witness ==
  /\ Len(promises) = 3
  /\ promises[1].settled
  /\ promises[1].value = workerFilterLogs(promises[1].asked.logs, promises[1].asked.filter)
  /\ promises[1].value # NoLogs
  /\ ~promises[2].settled
  /\ pendingRequests # {}
  /\ toOwner # <<>>
  /\ ~pendingHas(pendingRequests, Head(toOwner).requestId)

(***************************************************************************)
(* The log stream.  startLogcat and stopLogcat of useLogStream run up to   *)
(* an await, and on when what they await has settled; between the two any  *)
(* other handler may run.  Every caller of useLogStream() has its own      *)
(* unlistenRef.  The transport emits a batch as one "logcat-entries"       *)
(* event, and the event system calls every listener registered at that     *)
(* moment before anything else runs.                                       *)
(***************************************************************************)
MaxCalls == 2       \* calls of startLogcat and stopLogcat awaiting at once
MaxListeners == 2   \* listeners registered in one run
MaxEmits == 1       \* batches the transport emits in one run

\* what the transport streams
StreamShape == [level |-> "D", tag |-> "t", message |-> "a", pid |-> 1]

notStreamVars == <<now, arrived, pristine, workerVars, cacheVars, parseVars, matchVars,
                   passVars, historyVars>>

\* the sequence without its i-th element
removeAt(s, i) == SubSeq(s, 1, i - 1) \o SubSeq(s, i + 1, Len(s))

\* unlistenRef.current(), the function listen() resolved with: the listener
\* leaves the event system (n = 0 is the null ref: nothing to call)
unlisten(registered, n) == {l \in registered : l.n # n}

RECURSIVE listenerCalls(_, _)
\* one call per registered listener, in the order of registration
listenerCalls(registered, payload) ==
  IF registered = {} THEN <<>>
  ELSE LET first == CHOOSE l \in registered : \A other \in registered : l.n <= other.n
       IN <<[n |-> first.n, deviceId |-> first.deviceId, payload |-> payload]>>
            \o listenerCalls(registered \ {first}, payload)

\* startLogcat up to its first await: the listener this caller holds is
\* removed, the ref is cleared and listen() is called
startLogcat_begin(caller, deviceId, awaiting) ==
  /\ listeners' = unlisten(listeners, unlistenRef[caller])
  /\ unlistenRef' = [unlistenRef EXCEPT ![caller] = 0]
  /\ calls' = Append(awaiting, [caller |-> caller, awaits |-> "listen",
                                deviceId |-> deviceId, next |-> ""])

\* startLogcat when listen() has resolved: the listener is registered, its
\* unlisten function goes into the ref, and start_logcat is invoked
startLogcat_listening(i) ==
  /\ calls[i].awaits = "listen"
  /\ listeners' = listeners \cup {[n |-> nextListener + 1, deviceId |-> calls[i].deviceId]}
  /\ nextListener' = nextListener + 1
  /\ unlistenRef' = [unlistenRef EXCEPT ![calls[i].caller] = nextListener + 1]
  /\ calls' = [calls EXCEPT ![i].awaits = "start_logcat"]
  /\ UNCHANGED <<isConnected, hasAutoSelectedRef, streaming, emitted, toListeners,
                 appendCalls, storeVars, deviceLogs, nextId>>

\* startLogcat when start_logcat has settled: setConnected(true) and
\* switchToDevice, or the catch with setConnected(false) and the rethrow,
\* which useAutoSelectDevice answers by resetting hasAutoSelectedRef
startLogcat_started(i, ok) ==
  /\ calls[i].awaits = "start_logcat"
  /\ calls' = removeAt(calls, i)
  /\ isConnected' = ok
  /\ IF ok
     THEN /\ streaming' = calls[i].deviceId
          /\ switchToDevice(calls[i].deviceId)
          /\ UNCHANGED hasAutoSelectedRef
     ELSE /\ hasAutoSelectedRef' = (hasAutoSelectedRef /\ calls[i].caller # "useAutoSelectDevice")
          /\ UNCHANGED <<streaming, storeVars, deviceLogs>>
  /\ UNCHANGED <<unlistenRef, listeners, nextListener, emitted, toListeners, appendCalls,
                 nextId>>

\* stopLogcat up to its await: stop_logcat is invoked; next is the device
\* handleDeviceSelect starts afterwards, "" for none
stopLogcat_begin(caller, next, awaiting) ==
  /\ calls' = Append(awaiting, [caller |-> caller, awaits |-> "stop_logcat",
                                deviceId |-> "", next |-> next])
  /\ UNCHANGED <<unlistenRef, listeners>>

\* stopLogcat when stop_logcat has settled: setConnected(false) and the
\* listener of this caller removed, or the catch, which only logs; then
\* handleDeviceSelect goes on into startLogcat, up to its first await
stopLogcat_stopped(i, ok) ==
  LET call   == calls[i]
      cleans == ok \/ call.next # ""
  IN /\ call.awaits = "stop_logcat"
     /\ streaming' = IF ok THEN "" ELSE streaming
     /\ isConnected' = (isConnected /\ ~ok)
     /\ listeners' = IF cleans THEN unlisten(listeners, unlistenRef[call.caller])
                     ELSE listeners
     /\ unlistenRef' = IF cleans THEN [unlistenRef EXCEPT ![call.caller] = 0]
                       ELSE unlistenRef
     /\ calls' = IF call.next = "" THEN removeAt(calls, i)
                 ELSE Append(removeAt(calls, i),
                             [caller |-> call.caller, awaits |-> "listen",
                              deviceId |-> call.next, next |-> ""])
     /\ UNCHANGED <<hasAutoSelectedRef, nextListener, emitted, toListeners, appendCalls,
                    storeVars, deviceLogs, nextId>>

\* the listener startLogcat registered: addLogsForDevice(deviceId, payload)
\* with the deviceId of its call
logcatEntries_listener ==
  /\ toListeners # <<>>
  /\ addLogsForDevice(Head(toListeners).deviceId, Head(toListeners).payload)
  /\ toListeners' = Tail(toListeners)
  /\ appendCalls' = appendCalls + 1
  /\ UNCHANGED <<isConnected, hasAutoSelectedRef, unlistenRef, listeners, nextListener,
                 calls, streaming, emitted, nextId>>

\* a handler may begin a call
mayCall == toListeners = <<>> /\ Len(calls) < MaxCalls

\* the effect of useAutoSelectDevice: nothing connected, nothing selected and
\* no selection made before
AutoSelect ==
  \E d \in Devices :
    /\ mayCall
    /\ ~isConnected /\ selectedDevice = "" /\ ~hasAutoSelectedRef
    /\ hasAutoSelectedRef' = TRUE
    /\ startLogcat_begin("useAutoSelectDevice", d, calls)
    /\ UNCHANGED <<isConnected, nextListener, streaming, emitted, toListeners, appendCalls,
                   storeVars, deviceLogs, nextId, notStreamVars>>

\* useDeviceMonitor, the event connected for the selected device while the
\* store is not connected: a marker, then startLogcat
DeviceConnected ==
  /\ mayCall
  /\ selectedDevice \in Devices /\ ~isConnected
  /\ nextId <= MaxId
  /\ addDeviceMarker(selectedDevice, "b", "reconnect")
  /\ nextId' = nextId + 1
  /\ startLogcat_begin("useDeviceMonitor", selectedDevice, calls)
  /\ UNCHANGED <<isConnected, hasAutoSelectedRef, nextListener, streaming, emitted,
                 toListeners, appendCalls, notStreamVars>>

\* useDeviceMonitor, the event disconnected for the selected device: a
\* marker, then stopLogcat
DeviceDisconnected ==
  /\ mayCall
  /\ selectedDevice \in Devices
  /\ nextId <= MaxId
  /\ addDeviceMarker(selectedDevice, "b", "disconnect")
  /\ nextId' = nextId + 1
  /\ stopLogcat_begin("useDeviceMonitor", "", calls)
  /\ UNCHANGED <<isConnected, hasAutoSelectedRef, nextListener, streaming, emitted,
                 toListeners, appendCalls, notStreamVars>>

\* handleDeviceSelect of the Toolbar: stopLogcat first if connected, then
\* startLogcat
HandleDeviceSelect ==
  \E d \in Devices :
    /\ mayCall
    /\ IF isConnected THEN stopLogcat_begin("Toolbar", d, calls)
       ELSE startLogcat_begin("Toolbar", d, calls)
    /\ UNCHANGED <<isConnected, hasAutoSelectedRef, nextListener, streaming, emitted,
                   toListeners, appendCalls, storeVars, deviceLogs, nextId, notStreamVars>>

\* listen() resolves for one of the calls
Listening ==
  \E i \in 1 .. Len(calls) :
    /\ toListeners = <<>>
    /\ nextListener < MaxListeners
    /\ startLogcat_listening(i)
    /\ UNCHANGED notStreamVars

\* start_logcat settles for one of the calls
Started ==
  \E i \in 1 .. Len(calls), ok \in BOOLEAN :
    /\ toListeners = <<>>
    /\ startLogcat_started(i, ok)
    /\ UNCHANGED notStreamVars

\* stop_logcat settles for one of the calls
Stopped ==
  \E i \in 1 .. Len(calls), ok \in BOOLEAN :
    /\ toListeners = <<>>
    /\ stopLogcat_stopped(i, ok)
    /\ UNCHANGED notStreamVars

\* the transport emits a batch of the device it streams
Emit ==
  /\ toListeners = <<>>
  /\ streaming # ""
  /\ emitted < MaxEmits
  /\ nextId <= MaxId
  /\ emitted' = emitted + 1
  /\ toListeners' = listenerCalls(listeners, mkEntries(<<StreamShape>>, nextId))
  /\ nextId' = nextId + 1
  /\ UNCHANGED <<isConnected, hasAutoSelectedRef, unlistenRef, listeners, nextListener,
                 calls, streaming, appendCalls, storeVars, deviceLogs, notStreamVars>>

\* the event system calls the next listener of the batch
ListenerRuns ==
  /\ logcatEntries_listener
  /\ UNCHANGED notStreamVars

NextStream ==
  \/ AutoSelect
  \/ DeviceConnected
  \/ DeviceDisconnected
  \/ HandleDeviceSelect
  \/ Listening
  \/ Started
  \/ Stopped
  \/ Emit
  \/ ListenerRuns

SpecStream == Init /\ [][NextStream]_vars

\* C37: one listener.  In every interleaving of the calls of startLogcat
\* (auto-select, reconnect, selection by hand), two calls overlapping at an
\* await included, at most one "logcat-entries" listener is registered at
\* any time, and every batch the transport has delivered was appended to
\* the store exactly once.
C37_SingleListener ==
  /\ Cardinality(listeners) <= 1
  /\ toListeners = <<>> => appendCalls = emitted

(***************************************************************************)
(* The filter history.  Queries are added as the user applies them, the    *)
(* n-th new query being the text qn; the user marks and unmarks the entry  *)
(* at either end of the list as a favorite, deletes the last entry, or     *)
(* clears the history.  generateId joins the time and a random string: it  *)
(* is taken to return a new id at every call.                              *)
(***************************************************************************)
HISTORY_LIMIT == 20   \* [newItem, ...nonFavorites].slice(0, 20)
MaxQueries == 22      \* different queries added in one run
MaxFavorites == 1     \* entries marked as favorite at once
MaxEdits == 2         \* toggles, deletions and clearings in one run

\* `${Date.now()}-${random}`
generateId(n) == "id" \o ToString(n)

queryOf(n) == "q" \o ToString(n)

favoritesOf(history) == SelectSeq(history, LAMBDA h : h.isFavorite)

nonFavoritesOf(history) == SelectSeq(history, LAMBDA h : ~h.isFavorite)

\* Array.slice(0, n)
firstN(s, n) == SubSeq(s, 1, min(n, Len(s)))

addFilterHistory(q) ==
  IF trim(q) = ""
  THEN UNCHANGED <<filterHistory, generatedIds>>
  ELSE IF \E i \in 1 .. Len(filterHistory) : filterHistory[i].query = q
  THEN LET first == CHOOSE i \in 1 .. Len(filterHistory) :
                      /\ filterHistory[i].query = q
                      /\ \A j \in 1 .. i - 1 : filterHistory[j].query # q
           existing == filterHistory[first]
       IN /\ filterHistory' = [i \in 1 .. Len(filterHistory) |->
                                 IF filterHistory[i].id = existing.id
                                 THEN [filterHistory[i] EXCEPT !.timestamp = now]
                                 ELSE filterHistory[i]]
          /\ UNCHANGED generatedIds
  ELSE LET newItem == [id |-> generateId(generatedIds + 1), query |-> q,
                       timestamp |-> now, isFavorite |-> FALSE]
           limitedNonFavorites ==
             firstN(<<newItem>> \o nonFavoritesOf(filterHistory), HISTORY_LIMIT)
       IN /\ filterHistory' = favoritesOf(filterHistory) \o limitedNonFavorites
          /\ generatedIds' = generatedIds + 1

toggleFilterFavorite(id) ==
  /\ filterHistory' = [i \in 1 .. Len(filterHistory) |->
                         IF filterHistory[i].id = id
                         THEN [filterHistory[i] EXCEPT !.isFavorite = ~@]
                         ELSE filterHistory[i]]
  /\ UNCHANGED generatedIds

deleteFilterHistory(id) ==
  /\ filterHistory' = SelectSeq(filterHistory, LAMBDA h : h.id # id)
  /\ UNCHANGED generatedIds

clearFilterHistory ==
  /\ filterHistory' = favoritesOf(filterHistory)
  /\ UNCHANGED generatedIds

notHistoryVars == <<storeVars, deviceLogs, now, nextId, arrived, pristine, workerVars,
                    cacheVars, parseVars, matchVars, passVars, streamVars>>

\* the entries the user reaches for: the first and the last of the list
EndsOfHistory == {1, Len(filterHistory)} \cap (1 .. Len(filterHistory))

\* a query is applied: a new one, one of the list, or a blank one
AddFilterHistory ==
  \E q \in {queryOf(generatedIds + 1), "", " "}
            \cup {filterHistory[i].query : i \in EndsOfHistory} :
    /\ q = queryOf(generatedIds + 1) => generatedIds < MaxQueries
    /\ addFilterHistory(q)
    /\ UNCHANGED <<edits, notHistoryVars>>

\* the user edits the history
edited ==
  /\ edits < MaxEdits
  /\ edits' = edits + 1
  /\ UNCHANGED notHistoryVars

ToggleFilterFavorite ==
  \E i \in EndsOfHistory :
    /\ ~filterHistory[i].isFavorite => Len(favoritesOf(filterHistory)) < MaxFavorites
    /\ toggleFilterFavorite(filterHistory[i].id)
    /\ edited

\* the user deletes the entry at the end of the list
DeleteFilterHistory ==
  /\ filterHistory # <<>>
  /\ deleteFilterHistory(filterHistory[Len(filterHistory)].id)
  /\ edited

ClearFilterHistory ==
  /\ clearFilterHistory
  /\ edited

NextHistory ==
  \/ AddFilterHistory
  \/ ToggleFilterFavorite
  \/ DeleteFilterHistory
  \/ ClearFilterHistory

SpecHistory == Init /\ [][NextHistory]_vars

\* the entries of the one history that are entries of the other
keeps(after, before, h) ==
  \E i \in 1 .. Len(after) : after[i].id = h.id /\ after[i].isFavorite

\* C38: the filter history.  After any sequence of addFilterHistory,
\* toggleFilterFavorite, deleteFilterHistory and clearFilterHistory the
\* history holds at most 20 entries that are not favorites and no two
\* entries with the same query, and no blank query; addFilterHistory and
\* clearFilterHistory remove no favorite.
C38_FilterHistory ==
  /\ [](/\ Len(nonFavoritesOf(filterHistory)) <= HISTORY_LIMIT
        /\ \A i, j \in 1 .. Len(filterHistory) :
             filterHistory[i].query = filterHistory[j].query => i = j
        /\ \A i \in 1 .. Len(filterHistory) : trim(filterHistory[i].query) # "")
  /\ [][(AddFilterHistory \/ ClearFilterHistory) =>
          \A i \in 1 .. Len(filterHistory) :
            filterHistory[i].isFavorite => keeps(filterHistory', filterHistory, filterHistory[i])]_vars

\* the entries of the collection that an append of n entries retains
retainedOf(n) == SubSeq(logs, min(evictedBy(n), Len(logs)) + 1, Len(logs))

\* C39: an append that evicts entries removes from the filtered view only
\* entries that the same call evicted from the collection, also when ids
\* are not unique in the collection (imported entries are numbered from 0,
\* the entries streamed after resuming carry ids of the transport): every
\* entry of the view that the collection retains is still in the view, in
\* order, after the call.
C39_OnlyEvictedLeaveTheView ==
  [][(/\ AddLogs
      /\ ~isPaused
      /\ evictedBy(nextId' - nextId) > 0
      /\ filteredLogs = matching(logs, filter))
       => isSubsequence(matching(retainedOf(nextId' - nextId), filter), filteredLogs')]_vars

====
